---------------------------- MODULE Spec2Model ----------------------------
(***************************************************************************)
(* AirSenti backend: the OpenSky acquisition client (rate limiter, OAuth2  *)
(* token, response cache with staleness tiers, backoff, in-flight          *)
(* de-duplication) and the anomaly detection engine (history store,        *)
(* detector pipeline, batch orchestrator) of                               *)
(* src/backend/src/services/anomaly-detection.ts.                          *)
(*                                                                         *)
(* Time is Date.now() in milliseconds.  JavaScript runs one synchronous    *)
(* segment at a time, so every action below is one such segment: the code  *)
(* between two awaits of one call.                                         *)
(*                                                                         *)
(* Optional values (T | null) are sequences: Null is << >>, a present      *)
(* value v is << v >>.                                                     *)
(***************************************************************************)
EXTENDS Integers, Sequences, FiniteSets, TLC

VARIABLES
    now,                \* Date.now()
    ticks,              \* clock advances made so far
    useOAuth2,          \* env.OPENSKY_CLIENT_ID && env.OPENSKY_CLIENT_SECRET
    oauthToken,         \* cached bearer token, Null or << id >>
    tokenExpiresAt,
    tokensIssued,       \* tokens the auth server has issued (token ids)
    lastRequestTime,
    backoffUntil,
    responseCache,      \* cache key -> Null or << [data, timestamp] >>
    inflightRequests,   \* cache key -> Null or << owning call >>
    calls,              \* call slot -> the call's position and locals
    sent,               \* log of the requests sent to the OpenSky data API
    aircraftHistory,    \* icao24 -> sequence of recorded states
    ops,                \* detection operations run so far
    lastOp,             \* the detection operation run last, its argument
    lastArg,
    emitted,            \* anomalies of the last operation in emission order
    lastResult          \* what the last detection operation returned

fetchVars == << useOAuth2, oauthToken, tokenExpiresAt, tokensIssued,
                lastRequestTime, backoffUntil, responseCache,
                inflightRequests, calls, sent >>
detectVars == << aircraftHistory, ops, lastOp, lastArg, emitted, lastResult >>
vars == << now, ticks, fetchVars, detectVars >>

Null == << >>
Some(v) == << v >>
Val(x) == x[1]

(***************************************************************************)
(* Bounds of the model.                                                    *)
(***************************************************************************)
MaxCalls == 2
MaxTicks == 2

\* Date.now() when the process starts: any epoch time far above every TTL.
StartTime == 2000 * 1000

\* Clock advances between segments, in ms.
FetchSteps == {5000, 60000, 300000}

(***************************************************************************)
(* Program constants.                                                      *)
(***************************************************************************)
OPENSKY_RATE_LIMIT_MS == 10000
minRequestInterval == OPENSKY_RATE_LIMIT_MS
CACHE_TTL_MS == 15000
STALE_TTL_MS == 300000
BACKOFF_SECONDS == 60

\* expires_in values (seconds) the auth server may return with a token.
ExpiresInChoices == {70, 1800}

(***************************************************************************)
(* Request keys.  A key is the cacheKey string of the code, kept as a      *)
(* record: its prefix and the values joined into it.                       *)
(***************************************************************************)
SortedInsert(s, x) ==
    LET k == Cardinality({i \in DOMAIN s : s[i] <= x})
    IN  SubSeq(s, 1, k) \o << x >> \o SubSeq(s, k + 1, Len(s))

RECURSIVE sortIcao(_)
sortIcao(s) ==
    IF s = << >> THEN << >>
    ELSE SortedInsert(sortIcao(SubSeq(s, 1, Len(s) - 1)), s[Len(s)])

AllStatesKey == [prefix |-> "all_states", args |-> << >>]
BboxKey(bbox) == [prefix |-> "bbox", args |-> bbox]
Icao24Key(icao24List) == [prefix |-> "icao24", args |-> sortIcao(icao24List)]
NoKey == [prefix |-> "none", args |-> << >>]

\* Arguments the callers use.
BboxArgs == { << 40, 50, 0, 10 >> }
IcaoArgs == { << 1, 2 >>, << 2, 1 >> }
TrackArgs == { << 1 >> }

CacheKeys == {AllStatesKey} \cup {BboxKey(b) : b \in BboxArgs}
                 \cup {Icao24Key(l) : l \in IcaoArgs}

Calls == 1 .. MaxCalls

\* A payload is the parsed body of one upstream response: 0 is the empty
\* list, n > 0 the aircraft list (or track) carried by request number n.
EmptyList == 0

NoResult == [tag |-> "pending", data |-> 0]
DataResult(d) == [tag |-> "data", data |-> d]
NullResult == [tag |-> "null", data |-> 0]
ErrorResult == [tag |-> "error", data |-> 0]

IdleCall == [pc |-> "idle", kind |-> "none", key |-> NoKey, start |-> 0,
             cached |-> Null, wake |-> 0, nreq |-> 0, req |-> 0,
             how |-> "none",
             status |-> "none", owner |-> 0, result |-> NoResult]

(***************************************************************************)
(* Response cache: getCached, setCache.                                    *)
(***************************************************************************)
\* getCached with a single tier: every entry younger than STALE_TTL_MS is
\* handed out as fresh.
getCachedStaleAsFresh(key) ==
    LET entry == responseCache[key]
    IN  IF entry = Null THEN Null
        ELSE IF now - Val(entry).timestamp < STALE_TTL_MS
             THEN Some([data |-> Val(entry).data, fresh |-> TRUE])
             ELSE Null

\* getCached without the fresh tier: every entry younger than STALE_TTL_MS
\* is handed out as stale.
getCachedNoFreshTier(key) ==
    LET entry == responseCache[key]
    IN  IF entry = Null THEN Null
        ELSE IF now - Val(entry).timestamp < STALE_TTL_MS
             THEN Some([data |-> Val(entry).data, fresh |-> FALSE])
             ELSE Null

getCached(key) ==
    LET entry == responseCache[key]
    IN  IF entry = Null THEN Null
        ELSE LET age == now - Val(entry).timestamp
             IN  IF age < CACHE_TTL_MS
                 THEN Some([data |-> Val(entry).data, fresh |-> TRUE])
                 ELSE IF age < STALE_TTL_MS
                      THEN Some([data |-> Val(entry).data, fresh |-> FALSE])
                      ELSE Null

setCache(key, data) ==
    [responseCache EXCEPT ![key] = Some([data |-> data, timestamp |-> now])]

\* cached?.data || []   (an array, even an empty one, is truthy)
CachedOrEmpty(cached) == IF cached = Null THEN EmptyList ELSE Val(cached).data

(***************************************************************************)
(* getOAuthToken up to its first await: the cached token is returned when  *)
(* it is set and not yet expired, otherwise a token request goes out.      *)
(***************************************************************************)
\* The test without the expiry: a token, once cached, is used for ever.
TokenUsableIfSet == oauthToken # Null

TokenUsable == oauthToken # Null /\ now < tokenExpiresAt

\* One request to the data API as it leaves: when, for which call, with which
\* bearer token, and the cooldown deadline in force at that moment.
SendEntry(p, c, token, retry) ==
    [t |-> now, call |-> p, key |-> c.key, kind |-> c.kind, token |-> token,
     retry |-> retry, backoffUntil |-> backoffUntil]

(***************************************************************************)
(* rateLimitedFetch.  c is the call's record as its caller leaves it.      *)
(*   RLFPaced: from `lastRequestTime = Date.now()' to the first await,     *)
(*             which is the token request or the data request itself;      *)
(*   RLFEnter: the pacing test, sleeping when the last request is recent.  *)
(***************************************************************************)
RLFPaced(p, c) ==
    /\ lastRequestTime' = now
    /\ UNCHANGED << oauthToken, tokenExpiresAt, tokensIssued >>
    /\ IF useOAuth2 /\ ~TokenUsable
       THEN /\ calls' = [calls EXCEPT ![p] = [c EXCEPT !.pc = "tokenWait"]]
            /\ UNCHANGED sent
       ELSE /\ calls' = [calls EXCEPT ![p] =
                            [c EXCEPT !.pc = "fetchWait", !.nreq = 1,
                                      !.req = Len(sent) + 1]]
            /\ sent' = Append(sent,
                   SendEntry(p, c, IF useOAuth2 THEN oauthToken ELSE Null,
                             FALSE))

RLFEnter(p, c) ==
    LET timeSinceLastRequest == now - lastRequestTime
    IN  IF timeSinceLastRequest < minRequestInterval
        THEN /\ calls' = [calls EXCEPT ![p] =
                     [c EXCEPT !.pc = "sleep",
                               !.wake = now + (minRequestInterval
                                               - timeSinceLastRequest)]]
             /\ UNCHANGED << lastRequestTime, sent, oauthToken,
                             tokenExpiresAt, tokensIssued >>
        ELSE RLFPaced(p, c)

(***************************************************************************)
(* How a call that reached the network ends, per method.  status is the    *)
(* HTTP status of the response rateLimitedFetch returned, "200null" a 200  *)
(* whose body has states: null, and "autherr" a failed token request       *)
(* (getOAuthToken throws).  "500" stands for every failure that takes the  *)
(* `throw' path: a non-2xx status with no case of its own, or a rejected   *)
(* fetch, which reaches the same catch block.                              *)
(***************************************************************************)
DataStatuses == {"200", "200null", "401", "404", "429", "500"}
OkStatuses == {"200", "200null"}

\* The answers the upstream gives to each kind of request: a 401 is an
\* answer to a bearer token only, states: null to a state request only, 404
\* to a track request only.
StatusesFor(kind) ==
    IF kind = "track"
    THEN {"200", "404", "500"} \cup (IF useOAuth2 THEN {"401"} ELSE {})
    ELSE {"200", "200null", "429", "500"}
             \cup (IF useOAuth2 THEN {"401"} ELSE {})

\* getAllStates and getStatesByBoundingBox: lines 654-683 and 705-741.
StateCallResult(c, status) ==
    IF status = "429" THEN DataResult(CachedOrEmpty(c.cached))
    ELSE IF status = "200" THEN DataResult(c.req)
    ELSE IF status = "200null" THEN DataResult(EmptyList)
    ELSE DataResult(CachedOrEmpty(c.cached))

StateCallCache(c, status) ==
    IF status = "200" THEN setCache(c.key, c.req)
    ELSE IF status = "200null" THEN setCache(c.key, EmptyList)
    ELSE responseCache

StateCallBackoff(c, status) ==
    IF status = "429" THEN now + BACKOFF_SECONDS * 1000 ELSE backoffUntil

\* getStatesByIcao24, lines 792-824.  consecutiveFailures is declared nowhere
\* and a class body is strict code, so `consecutiveFailures++' (429) and
\* `consecutiveFailures = 0' (2xx) both throw a ReferenceError before
\* backoffUntil or the cache is written; the method's catch turns it, like
\* every other failure, into cached?.data || [].
IcaoCallResult(c, status) == DataResult(CachedOrEmpty(c.cached))
IcaoCallCache(c, status) == responseCache
IcaoCallBackoff(c, status) == backoffUntil

\* getFlightTrack answering every failure the way it answers a 404.
TrackCallResultNullOnFailure(c, status) ==
    IF status \in OkStatuses THEN DataResult(c.req) ELSE NullResult

\* getFlightTrack, lines 830-864: 404 is null, any other failure is rethrown.
TrackCallResult(c, status) ==
    IF status \in OkStatuses THEN DataResult(c.req)
    ELSE IF status = "404" THEN NullResult
    ELSE ErrorResult

CallResult(c, status) ==
    IF c.kind = "icao" THEN IcaoCallResult(c, status)
    ELSE IF c.kind = "track" THEN TrackCallResult(c, status)
    ELSE StateCallResult(c, status)

CallCache(c, status) ==
    IF c.kind = "icao" THEN IcaoCallCache(c, status)
    ELSE IF c.kind = "track" THEN responseCache
    ELSE StateCallCache(c, status)

CallBackoff(c, status) ==
    IF c.kind = "icao" THEN IcaoCallBackoff(c, status)
    ELSE IF c.kind = "track" THEN backoffUntil
    ELSE StateCallBackoff(c, status)

\* Only getAllStates and getStatesByBoundingBox register in inflightRequests.
Deduplicated(kind) == kind \in {"all", "bbox"}

\* A settle without the `finally' of line 682.
SettleKeepsMarker(p, status) ==
    LET c == calls[p]
        r == CallResult(c, status)
    IN  /\ calls' = [q \in Calls |->
                IF q = p
                THEN [c EXCEPT !.pc = "done", !.status = status, !.result = r]
                ELSE IF calls[q].pc = "joined" /\ calls[q].owner = p
                     THEN [calls[q] EXCEPT !.pc = "done", !.result = r]
                     ELSE calls[q]]
        /\ responseCache' = CallCache(c, status)
        /\ backoffUntil' = CallBackoff(c, status)
        /\ inflightRequests' = inflightRequests

\* The promise of call p settles: its result goes to p and to every caller
\* that was handed the same promise; `finally' drops the in-flight marker.
Settle(p, status) ==
    LET c == calls[p]
        r == CallResult(c, status)
    IN  /\ calls' = [q \in Calls |->
                IF q = p
                THEN [c EXCEPT !.pc = "done", !.status = status, !.result = r]
                ELSE IF calls[q].pc = "joined" /\ calls[q].owner = p
                     THEN [calls[q] EXCEPT !.pc = "done", !.result = r]
                     ELSE calls[q]]
        /\ responseCache' = CallCache(c, status)
        /\ backoffUntil' = CallBackoff(c, status)
        /\ inflightRequests' =
               IF Deduplicated(c.kind)
               THEN [inflightRequests EXCEPT ![c.key] = Null]
               ELSE inflightRequests

(***************************************************************************)
(* The client's methods up to their first await.  Call slots are taken in  *)
(* order, so slot numbers follow the order in which the calls were made.   *)
(***************************************************************************)
NextSlot(p) ==
    calls[p].pc = "idle" /\ (IF p = 1 THEN TRUE ELSE calls[p - 1].pc # "idle")

NewCall(kind, key, cached) ==
    [IdleCall EXCEPT !.kind = kind, !.key = key, !.start = now,
                     !.cached = cached]

\* Lines 640-652 and 686 (694-703 and 744; 784-790 with no in-flight test).
StateCall(p, kind, key) ==
    LET cached == getCached(key)
        c == NewCall(kind, key, cached)
    IN  /\ NextSlot(p)
        /\ UNCHANGED << responseCache, backoffUntil >>
        /\ IF cached # Null /\ Val(cached).fresh
           THEN /\ calls' = [calls EXCEPT ![p] =
                        [c EXCEPT !.pc = "done", !.how = "fresh",
                                  !.result = DataResult(Val(cached).data)]]
                /\ UNCHANGED << inflightRequests, lastRequestTime, sent,
                                oauthToken, tokenExpiresAt, tokensIssued >>
           ELSE IF now < backoffUntil
           THEN /\ calls' = [calls EXCEPT ![p] =
                        [c EXCEPT !.pc = "done", !.how = "backoff",
                                  !.result = DataResult(CachedOrEmpty(cached))]]
                /\ UNCHANGED << inflightRequests, lastRequestTime, sent,
                                oauthToken, tokenExpiresAt, tokensIssued >>
           ELSE IF Deduplicated(kind) /\ inflightRequests[key] # Null
           THEN /\ calls' = [calls EXCEPT ![p] =
                        [c EXCEPT !.pc = "joined", !.how = "joined",
                                  !.owner = Val(inflightRequests[key])]]
                /\ UNCHANGED << inflightRequests, lastRequestTime, sent,
                                oauthToken, tokenExpiresAt, tokensIssued >>
           ELSE /\ RLFEnter(p, [c EXCEPT !.how = "net"])
                /\ inflightRequests' =
                       IF Deduplicated(kind)
                       THEN [inflightRequests EXCEPT ![key] = Some(p)]
                       ELSE inflightRequests

getAllStates(p) ==
    /\ StateCall(p, "all", AllStatesKey)
    /\ UNCHANGED << now, ticks, useOAuth2, detectVars >>

getStatesByBoundingBox(p, bbox) ==
    /\ StateCall(p, "bbox", BboxKey(bbox))
    /\ UNCHANGED << now, ticks, useOAuth2, detectVars >>

getStatesByIcao24(p, icao24List) ==
    /\ StateCall(p, "icao", Icao24Key(icao24List))
    /\ UNCHANGED << now, ticks, useOAuth2, detectVars >>

\* Lines 830-837: no cache, no backoff test, no in-flight marker.
getFlightTrack(p, icao24) ==
    /\ NextSlot(p)
    /\ RLFEnter(p, [NewCall("track", [prefix |-> "track", args |-> icao24],
                            Null) EXCEPT !.how = "net"])
    /\ UNCHANGED << responseCache, backoffUntil, inflightRequests >>
    /\ UNCHANGED << now, ticks, useOAuth2, detectVars >>

(***************************************************************************)
(* The continuations of rateLimitedFetch.                                  *)
(***************************************************************************)
\* Line 581: the pacing timer fires (a timer fires at or after its time).
Wake(p) ==
    /\ calls[p].pc = "sleep"
    /\ now >= calls[p].wake
    /\ RLFPaced(p, [calls[p] EXCEPT !.wake = 0])
    /\ UNCHANGED << responseCache, backoffUntil, inflightRequests >>
    /\ UNCHANGED << now, ticks, useOAuth2, detectVars >>

\* Lines 533-542, then 593/599 or 606/607: the token arrives, is cached, and
\* the data request (the first one, or the retry after a 401) is sent.
TokenAcquired(p, expires_in) ==
    LET c == calls[p]
        token == Some(tokensIssued + 1)
    IN  /\ c.pc \in {"tokenWait", "tokenWait2"}
        /\ tokensIssued' = tokensIssued + 1
        /\ oauthToken' = token
        /\ tokenExpiresAt' = now + (expires_in - 60) * 1000
        /\ calls' = [calls EXCEPT ![p] =
               [c EXCEPT !.pc = IF c.pc = "tokenWait" THEN "fetchWait"
                                ELSE "fetchWait2",
                         !.nreq = c.nreq + 1, !.req = Len(sent) + 1]]
        /\ sent' = Append(sent, SendEntry(p, c, token, c.pc = "tokenWait2"))
        /\ UNCHANGED << lastRequestTime, responseCache, backoffUntil,
                        inflightRequests >>
        /\ UNCHANGED << now, ticks, useOAuth2, detectVars >>

\* Lines 533-535: the token request fails and getOAuthToken throws.
TokenFailed(p) ==
    /\ calls[p].pc \in {"tokenWait", "tokenWait2"}
    /\ Settle(p, "autherr")
    /\ UNCHANGED << oauthToken, tokenExpiresAt, tokensIssued,
                    lastRequestTime, sent >>
    /\ UNCHANGED << now, ticks, useOAuth2, detectVars >>

\* The retry test applied to the retry's own response as well.
RetriesOnEvery401(c, status) == status = "401" /\ useOAuth2

\* Line 602: the test that sends a response into the refresh-and-retry
\* branch; the retry's own response is returned without it (line 607).
RetriesOn(c, status) == status = "401" /\ useOAuth2 /\ c.pc = "fetchWait"

\* The 401 branch without lines 603-604: the rejected token stays cached.
UnauthorizedKeepsToken(p) ==
    /\ calls[p].pc \in {"fetchWait", "fetchWait2"}
    /\ RetriesOn(calls[p], "401")
    /\ calls' = [calls EXCEPT ![p].pc = "tokenWait2"]
    /\ UNCHANGED << oauthToken, tokenExpiresAt, tokensIssued, lastRequestTime,
                    sent, responseCache, backoffUntil, inflightRequests >>
    /\ UNCHANGED << now, ticks, useOAuth2, detectVars >>

\* Lines 602-605: a 401 under OAuth2 drops the cached token and asks for a
\* new one (oauthToken is null, so getOAuthToken always goes to the server).
Unauthorized(p) ==
    /\ calls[p].pc \in {"fetchWait", "fetchWait2"}
    /\ RetriesOn(calls[p], "401")
    /\ oauthToken' = Null
    /\ tokenExpiresAt' = 0
    /\ calls' = [calls EXCEPT ![p].pc = "tokenWait2"]
    /\ UNCHANGED << tokensIssued, lastRequestTime, sent, responseCache,
                    backoffUntil, inflightRequests >>
    /\ UNCHANGED << now, ticks, useOAuth2, detectVars >>

\* Lines 607/610: the response rateLimitedFetch returns to its caller: any
\* response to the retry, and any response to the first request except a
\* 401 under OAuth2.
Response(p, status) ==
    /\ calls[p].pc \in {"fetchWait", "fetchWait2"}
    /\ status \in StatusesFor(calls[p].kind)
    /\ ~RetriesOn(calls[p], status)
    /\ Settle(p, status)
    /\ UNCHANGED << oauthToken, tokenExpiresAt, tokensIssued,
                    lastRequestTime, sent >>
    /\ UNCHANGED << now, ticks, useOAuth2, detectVars >>

\* Wall-clock time passes.
Tick(d) ==
    /\ ticks < MaxTicks
    /\ now' = now + d
    /\ ticks' = ticks + 1
    /\ lastOp' = "clock"
    /\ UNCHANGED << fetchVars, aircraftHistory, ops, lastArg, emitted,
                    lastResult >>

(***************************************************************************)
(* Anomaly detection.  An aircraft state is a record of the fields the     *)
(* detectors read.  Physical values are integers in the unit of the feed   *)
(* (m, m/s, degrees); last_contact is held in milliseconds (the code's     *)
(* seconds times 1000), so that Date.now() / 1000 stays exact.  Converted  *)
(* values keep the factor of the code as an integer scale:                 *)
(*   ft/min x 100   = m/s x 19685     (x 196.85)                           *)
(*   ft     x 1000  = m   x 3281      (x 3.281)                            *)
(*   kt     x 1000  = m/s x 1944      (x 1.944)                            *)
(***************************************************************************)
Icaos == {1, 2}

HISTORY_MAX_SIZE == 100
HISTORY_RETENTION_MS == 30 * 60 * 1000
RAPID_ALTITUDE_DROP_FT_PER_MIN == -3000
UNUSUALLY_SLOW_KTS == 80
UNUSUALLY_FAST_KTS == 600
HOLDING_PATTERN_TURNS == 2
CRITICAL_VERTICAL_RATE_FPM == -4000
EMERGENCY_SQUAWKS == {"7500", "7600", "7700"}

\* x || 0
OrZero(x) == IF x = Null THEN 0 ELSE Val(x)

Abs(x) == IF x < 0 THEN -x ELSE x
Min(a, b) == IF a <= b THEN a ELSE b

LastN(s, n) == IF Len(s) > n THEN SubSeq(s, Len(s) - n + 1, Len(s)) ELSE s

\* Lines 35-49.  The entry is the state with last_contact overwritten by the
\* wall clock; entries at or before the cutoff go first, then the oldest
\* beyond the size cap.
HistoryEntry(aircraft) == [aircraft EXCEPT !.last_contact = now]

\* addToHistory without the age filter.
AgeTrimKeepsAll(history) == history

AgeTrim(history) ==
    LET cutoffTime == now - HISTORY_RETENTION_MS
        Young(a) == a.last_contact > cutoffTime
    IN  SelectSeq(history, Young)

CountTrim(filtered) == LastN(filtered, HISTORY_MAX_SIZE)

\* addToHistory skipping a state equal to the last one recorded, timestamp
\* included.
addToHistoryDeduplicating(store, aircraft) ==
    LET before == store[aircraft.icao24]
        history == IF before # << >>
                      /\ before[Len(before)] = HistoryEntry(aircraft)
                   THEN before
                   ELSE Append(before, HistoryEntry(aircraft))
    IN  [store EXCEPT ![aircraft.icao24] = CountTrim(AgeTrim(history))]

addToHistory(store, aircraft) ==
    LET history == Append(store[aircraft.icao24], HistoryEntry(aircraft))
    IN  [store EXCEPT ![aircraft.icao24] = CountTrim(AgeTrim(history))]

getHistory(store, icao24) == store[icao24]

\* An anomaly record that is always given the 0/0 placeholder as location.
AnomalyAtPlaceholder(aircraft, type, severity, metrics) ==
    [flight_icao24 |-> aircraft.icao24, type |-> type, severity |-> severity,
     location |-> [latitude |-> 0, longitude |-> 0], metrics |-> metrics]

\* The anomaly record: generated id, callsign, detected_at and the text of
\* details carry no decision and are left out.
Anomaly(aircraft, type, severity, metrics) ==
    [flight_icao24 |-> aircraft.icao24, type |-> type, severity |-> severity,
     location |-> [latitude |-> OrZero(aircraft.latitude),
                   longitude |-> OrZero(aircraft.longitude)],
     metrics |-> metrics]

\* detectEmergencySquawk knowing the general emergency code as the only key.
detectEmergencySquawkNo7700(aircraft) ==
    IF aircraft.squawk = Null \/ aircraft.squawk = Some("") THEN Null
    ELSE IF Val(aircraft.squawk) \in {"7500", "7600"}
         THEN Some(Anomaly(aircraft, "emergency_squawk", "critical",
                           [squawk_code |-> Val(aircraft.squawk)]))
         ELSE Null

\* Lines 62-89.
detectEmergencySquawk(aircraft) ==
    IF aircraft.squawk = Null \/ aircraft.squawk = Some("") THEN Null
    ELSE IF Val(aircraft.squawk) \in EMERGENCY_SQUAWKS
         THEN Some(Anomaly(aircraft, "emergency_squawk", "critical",
                           [squawk_code |-> Val(aircraft.squawk)]))
         ELSE Null

\* detectAltitudeAnomaly trying the derivative before the vertical rate.
detectAltitudeAnomalyDerivativeFirst(aircraft, history) ==
    IF aircraft.on_ground \/ aircraft.vertical_rate = Null THEN Null
    ELSE
    LET verticalRateFpm == Val(aircraft.vertical_rate) * 19685
        previousState == history[Len(history) - 1]
        altitudeChange == (Val(aircraft.baro_altitude)
                           - Val(previousState.baro_altitude)) * 3281
        timeChange == aircraft.last_contact - previousState.last_contact
    IN  IF /\ Len(history) >= 2
           /\ aircraft.baro_altitude # Null
           /\ previousState.baro_altitude # Null
           /\ timeChange > 0
           /\ altitudeChange * 60 < RAPID_ALTITUDE_DROP_FT_PER_MIN * timeChange
        THEN Some(Anomaly(aircraft, "altitude_drop", "high",
                          [altitude_change_ft |-> altitudeChange,
                           time_change_ms |-> timeChange]))
        ELSE IF verticalRateFpm < CRITICAL_VERTICAL_RATE_FPM * 100
        THEN Some(Anomaly(aircraft, "rapid_descent", "high",
                          [vertical_rate_fpm |-> verticalRateFpm]))
        ELSE Null

\* Lines 94-162.  history already holds the state under evaluation as its
\* last entry, so history[length - 2] is the entry recorded before it.
detectAltitudeAnomaly(aircraft, history) ==
    IF aircraft.on_ground \/ aircraft.vertical_rate = Null THEN Null
    ELSE
    LET verticalRateFpm == Val(aircraft.vertical_rate) * 19685
    IN  IF verticalRateFpm < CRITICAL_VERTICAL_RATE_FPM * 100
        THEN Some(Anomaly(aircraft, "rapid_descent", "high",
                          [vertical_rate_fpm |-> verticalRateFpm]))
        ELSE IF Len(history) >= 2 /\ aircraft.baro_altitude # Null
        THEN LET previousState == history[Len(history) - 1]
             IN  IF previousState.baro_altitude # Null
                 THEN LET \* feet x 1000, and milliseconds (minutes x 60000)
                          altitudeChange ==
                              (Val(aircraft.baro_altitude)
                               - Val(previousState.baro_altitude)) * 3281
                          timeChange == aircraft.last_contact
                                        - previousState.last_contact
                      IN  \* altitudeChange / timeChange < -3000 ft/min
                          IF timeChange > 0
                             /\ altitudeChange * 60
                                < RAPID_ALTITUDE_DROP_FT_PER_MIN * timeChange
                          THEN Some(Anomaly(aircraft, "altitude_drop", "high",
                                   [altitude_change_ft |-> altitudeChange,
                                    time_change_ms |-> timeChange]))
                          ELSE Null
                 ELSE Null
        ELSE Null

\* The heading change accumulated as it is.
NormalizeHeadingChangeNone(headingChange) == headingChange

\* Lines 184-186: the heading change folded into [-180, 180].
NormalizeHeadingChange(headingChange) ==
    LET a == IF headingChange > 180 THEN headingChange - 360
             ELSE headingChange
    IN  IF a < -180 THEN a + 360 ELSE a

\* Lines 175-196: the loop over recentHistory, from index i on, carrying
\* lastHeading, totalHeadingChange and turnCount.
RECURSIVE HeadingLoop(_, _, _, _, _)
HeadingLoop(recentHistory, i, lastHeading, totalHeadingChange, turnCount) ==
    IF i > Len(recentHistory)
    THEN [totalHeadingChange |-> totalHeadingChange, turnCount |-> turnCount]
    ELSE LET currentHeading == recentHistory[i].true_track
         IN  IF lastHeading # Null /\ currentHeading # Null
             THEN LET headingChange ==
                          NormalizeHeadingChange(Val(currentHeading)
                                                 - Val(lastHeading))
                  IN  HeadingLoop(recentHistory, i + 1, currentHeading,
                                  totalHeadingChange + headingChange,
                                  IF Abs(headingChange) > 30
                                  THEN turnCount + 1 ELSE turnCount)
             ELSE HeadingLoop(recentHistory, i + 1, currentHeading,
                              totalHeadingChange, turnCount)

\* detectHoldingPattern without the test of line 171.
detectHoldingPatternOnGround(aircraft, history) ==
    IF Len(history) < 20 THEN Null
    ELSE
    LET recentHistory == LastN(history, 30)
        r == HeadingLoop(recentHistory, 2, recentHistory[1].true_track, 0, 0)
    IN  IF Abs(r.totalHeadingChange) >= HOLDING_PATTERN_TURNS * 360
        THEN Some(Anomaly(aircraft, "holding_pattern", "medium",
                          [turn_count |-> r.turnCount,
                           total_heading_change |-> r.totalHeadingChange]))
        ELSE Null

\* detectHoldingPattern asking for more than two full circles.
detectHoldingPatternAboveTwo(aircraft, history) ==
    IF Len(history) < 20 THEN Null
    ELSE IF aircraft.on_ground THEN Null
    ELSE
    LET recentHistory == LastN(history, 30)
        r == HeadingLoop(recentHistory, 2, recentHistory[1].true_track, 0, 0)
    IN  IF Abs(r.totalHeadingChange) > HOLDING_PATTERN_TURNS * 360
        THEN Some(Anomaly(aircraft, "holding_pattern", "medium",
                          [turn_count |-> r.turnCount,
                           total_heading_change |-> r.totalHeadingChange]))
        ELSE Null

\* Lines 167-225.  fullCircles >= 2 is |totalHeadingChange| / 360 >= 2.
detectHoldingPattern(aircraft, history) ==
    IF Len(history) < 20 THEN Null
    ELSE IF aircraft.on_ground THEN Null
    ELSE
    LET recentHistory == LastN(history, 30)
        r == HeadingLoop(recentHistory, 2, recentHistory[1].true_track, 0, 0)
    IN  IF Abs(r.totalHeadingChange) >= HOLDING_PATTERN_TURNS * 360
        THEN Some(Anomaly(aircraft, "holding_pattern", "medium",
                          [turn_count |-> r.turnCount,
                           total_heading_change |-> r.totalHeadingChange]))
        ELSE Null

\* detectSpeedAnomaly flagging every slow aircraft, whatever its altitude.
detectSpeedAnomalyAnyAltitude(aircraft) ==
    IF aircraft.on_ground \/ aircraft.velocity = Null THEN Null
    ELSE
    LET speedKts == Val(aircraft.velocity) * 1944
    IN  IF speedKts > UNUSUALLY_FAST_KTS * 1000
        THEN Some(Anomaly(aircraft, "unusual_speed", "medium",
                          [ground_speed_kts |-> speedKts]))
        ELSE IF speedKts < UNUSUALLY_SLOW_KTS * 1000
        THEN Some(Anomaly(aircraft, "unusual_speed", "low",
                          [ground_speed_kts |-> speedKts]))
        ELSE Null

\* Lines 230-284.
detectSpeedAnomaly(aircraft) ==
    IF aircraft.on_ground \/ aircraft.velocity = Null THEN Null
    ELSE
    LET speedKts == Val(aircraft.velocity) * 1944
    IN  IF speedKts > UNUSUALLY_FAST_KTS * 1000
        THEN Some(Anomaly(aircraft, "unusual_speed", "medium",
                          [ground_speed_kts |-> speedKts]))
        ELSE IF /\ speedKts < UNUSUALLY_SLOW_KTS * 1000
                /\ aircraft.baro_altitude # Null
                /\ Val(aircraft.baro_altitude) # 0
                /\ Val(aircraft.baro_altitude) > 3000
        THEN Some(Anomaly(aircraft, "unusual_speed", "low",
                          [ground_speed_kts |-> speedKts]))
        ELSE Null

\* Lines 297-322: the scan over recent, from index i on.  lowestAltitude is
\* Null while it is still Infinity.
RECURSIVE GoAroundLoop(_, _, _, _, _, _)
GoAroundLoop(recent, i, wasDescending, reachedLowAltitude, isNowClimbing, lowestAltitude) ==
    IF i > Len(recent)
    THEN [wasDescending |-> wasDescending,
          reachedLowAltitude |-> reachedLowAltitude,
          isNowClimbing |-> isNowClimbing, lowestAltitude |-> lowestAltitude]
    ELSE LET prev == recent[i - 1]
             curr == recent[i]
         IN  IF prev.baro_altitude # Null /\ curr.baro_altitude # Null
             THEN LET altFt == Val(curr.baro_altitude) * 3281
                      lowest == IF lowestAltitude = Null THEN Some(altFt)
                                ELSE Some(Min(Val(lowestAltitude), altFt))
                      desc == wasDescending
                              \/ Val(curr.baro_altitude)
                                 < Val(prev.baro_altitude)
                      low == reachedLowAltitude
                             \/ (altFt < 1500 * 1000 /\ desc)
                      climb == isNowClimbing
                               \/ (Val(curr.baro_altitude)
                                   > Val(prev.baro_altitude) /\ low)
                  IN  GoAroundLoop(recent, i + 1, desc, low, climb, lowest)
             ELSE GoAroundLoop(recent, i + 1, wasDescending,
                               reachedLowAltitude, isNowClimbing,
                               lowestAltitude)

\* detectGoAround reporting the missed approach as a diversion.
detectGoAroundAsDiversion(aircraft, history) ==
    IF Len(history) < 10 THEN Null
    ELSE
    LET recent == LastN(history, 15)
        r == GoAroundLoop(recent, 2, FALSE, FALSE, FALSE, Null)
    IN  IF /\ r.wasDescending /\ r.reachedLowAltitude /\ r.isNowClimbing
           /\ aircraft.vertical_rate # Null
           /\ Val(aircraft.vertical_rate) # 0
           /\ Val(aircraft.vertical_rate) > 2
        THEN Some(Anomaly(aircraft, "diversion", "medium",
                          [lowest_altitude_ft |-> Val(r.lowestAltitude)]))
        ELSE Null

\* Lines 289-347.
detectGoAround(aircraft, history) ==
    IF Len(history) < 10 THEN Null
    ELSE
    LET recent == LastN(history, 15)
        r == GoAroundLoop(recent, 2, FALSE, FALSE, FALSE, Null)
    IN  IF /\ r.wasDescending /\ r.reachedLowAltitude /\ r.isNowClimbing
           /\ aircraft.vertical_rate # Null
           /\ Val(aircraft.vertical_rate) # 0
           /\ Val(aircraft.vertical_rate) > 2
        THEN Some(Anomaly(aircraft, "go_around", "medium",
                          [lowest_altitude_ft |-> Val(r.lowestAltitude)]))
        ELSE Null

\* Lines 364-370: the pipeline, in order.
detectors ==
    << "detectEmergencySquawk", "detectAltitudeAnomaly",
       "detectHoldingPattern", "detectSpeedAnomaly", "detectGoAround" >>

\* Line 374: detector(aircraft); the history is read by the detector itself.
Detector(name, aircraft, history) ==
    CASE name = "detectEmergencySquawk" -> detectEmergencySquawk(aircraft)
      [] name = "detectAltitudeAnomaly" ->
             detectAltitudeAnomaly(aircraft, history)
      [] name = "detectHoldingPattern" ->
             detectHoldingPattern(aircraft, history)
      [] name = "detectSpeedAnomaly" -> detectSpeedAnomaly(aircraft)
      [] name = "detectGoAround" -> detectGoAround(aircraft, history)

\* The loop with one try around all of it: the first throw ends the loop.
RECURSIVE DetectorLoopEndsAtThrow(_, _, _, _)
DetectorLoopEndsAtThrow(aircraft, history, throwing, i) ==
    IF i > Len(detectors) THEN << >>
    ELSE IF detectors[i] \in throwing THEN << >>
    ELSE Detector(detectors[i], aircraft, history)
         \o DetectorLoopEndsAtThrow(aircraft, history, throwing, i + 1)

\* Lines 372-381: the loop from detector i on.  Each call sits in its own
\* try: a detector that throws (those named in throwing) pushes nothing and
\* the loop goes on; a result that is not null is pushed.
RECURSIVE DetectorLoop(_, _, _, _)
DetectorLoop(aircraft, history, throwing, i) ==
    IF i > Len(detectors) THEN << >>
    ELSE (IF detectors[i] \in throwing THEN << >>
          ELSE Detector(detectors[i], aircraft, history))
         \o DetectorLoop(aircraft, history, throwing, i + 1)

\* The pipeline with the speed detector ahead of the holding detector.
RunDetectorsSpeedFirst(aircraft, history) ==
    detectEmergencySquawk(aircraft)
    \o detectAltitudeAnomaly(aircraft, history)
    \o detectSpeedAnomaly(aircraft)
    \o detectHoldingPattern(aircraft, history)
    \o detectGoAround(aircraft, history)

\* Lines 364-381 when no detector throws: each result pushed when it is not
\* null, in pipeline order.
RunDetectors(aircraft, history) ==
    detectEmergencySquawk(aircraft)
    \o detectAltitudeAnomaly(aircraft, history)
    \o detectHoldingPattern(aircraft, history)
    \o detectSpeedAnomaly(aircraft)
    \o detectGoAround(aircraft, history)

\* The position test skipping only a state that lacks both coordinates.
HasNoPositionBoth(aircraft) ==
    aircraft.latitude = Null /\ aircraft.longitude = Null

\* Line 356: the test that skips an aircraft without a position.
HasNoPosition(aircraft) ==
    aircraft.latitude = Null \/ aircraft.longitude = Null

\* Lines 352-384.  The result is the history store as the call leaves it and
\* the anomalies it returns.
detectAnomalies(store, aircraft) ==
    IF HasNoPosition(aircraft)
    THEN [history |-> store, anomalies |-> << >>]
    ELSE LET recorded == addToHistory(store, aircraft)
         IN  [history |-> recorded,
              anomalies |-> RunDetectors(aircraft,
                                getHistory(recorded, aircraft.icao24))]

\* Lines 392-395 (and 411-436): detectAnomalies over a list, in order.
RECURSIVE DetectEach(_, _)
DetectEach(store, aircraft) ==
    IF aircraft = << >> THEN [history |-> store, anomalies |-> << >>]
    ELSE LET first == detectAnomalies(store, Head(aircraft))
             rest == DetectEach(first.history, Tail(aircraft))
         IN  [history |-> rest.history,
              anomalies |-> first.anomalies \o rest.anomalies]

\* Lines 352-384 and 392-395 with detectors that throw: throwing[i] names the
\* detectors that throw on the i-th aircraft.  addToHistory runs before the
\* loop and outside every try.
RECURSIVE DetectEachThrowing(_, _, _)
DetectEachThrowing(store, aircraft, throwing) ==
    IF aircraft = << >> THEN [history |-> store, anomalies |-> << >>]
    ELSE LET ac == Head(aircraft)
             recorded == IF HasNoPosition(ac) THEN store
                         ELSE addToHistory(store, ac)
             first == IF HasNoPosition(ac) THEN << >>
                      ELSE DetectorLoop(ac, getHistory(recorded, ac.icao24),
                                        Head(throwing), 1)
             rest == DetectEachThrowing(recorded, Tail(aircraft),
                                        Tail(throwing))
         IN  [history |-> rest.history, anomalies |-> first \o rest.anomalies]

\* Lines 398-399.  Array.prototype.sort is stable: an element goes behind
\* every element that does not sort after it.
severityOrder(severity) ==
    CASE severity = "critical" -> 0
      [] severity = "high" -> 1
      [] severity = "medium" -> 2
      [] severity = "low" -> 3

\* An insertion that puts an element in front of its equals.
SortInsertBeforeEquals(sorted, a) ==
    LET k == Cardinality({i \in DOMAIN sorted :
                 severityOrder(sorted[i].severity)
                 < severityOrder(a.severity)})
    IN  SubSeq(sorted, 1, k) \o << a >> \o SubSeq(sorted, k + 1, Len(sorted))

SortInsert(sorted, a) ==
    LET k == Cardinality({i \in DOMAIN sorted :
                 severityOrder(sorted[i].severity)
                 <= severityOrder(a.severity)})
    IN  SubSeq(sorted, 1, k) \o << a >> \o SubSeq(sorted, k + 1, Len(sorted))

RECURSIVE SortBySeverity(_)
SortBySeverity(allAnomalies) ==
    IF allAnomalies = << >> THEN << >>
    ELSE SortInsert(SortBySeverity(SubSeq(allAnomalies, 1,
                                          Len(allAnomalies) - 1)),
                    allAnomalies[Len(allAnomalies)])

\* A pseudo state that reports a climb of 3 m/s instead of no vertical rate.
PseudoAircraftClimbing(track, point) ==
    [icao24 |-> track.icao24, latitude |-> point.latitude,
     longitude |-> point.longitude, baro_altitude |-> point.baro_altitude,
     velocity |-> Null, true_track |-> point.true_track,
     vertical_rate |-> Some(3), on_ground |-> point.on_ground,
     squawk |-> Null, last_contact |-> point.time]

\* Lines 413-431: the pseudo state built from one track point.
PseudoAircraft(track, point) ==
    [icao24 |-> track.icao24, latitude |-> point.latitude,
     longitude |-> point.longitude, baro_altitude |-> point.baro_altitude,
     velocity |-> Null, true_track |-> point.true_track,
     vertical_rate |-> Null, on_ground |-> point.on_ground, squawk |-> Null,
     last_contact |-> point.time]

\* Line 412: only the points with a position are evaluated.
TrackStates(track) ==
    LET Positioned(point) == point.latitude # Null /\ point.longitude # Null
        pts == SelectSeq(track.path, Positioned)
    IN  [i \in DOMAIN pts |-> PseudoAircraft(track, pts[i])]

(***************************************************************************)
(* The detection service as a state machine.  lastOp, lastArg, emitted and *)
(* lastResult record the last call: its name, its argument, the anomalies  *)
(* in the order the detectors pushed them, and what the call returned.     *)
(***************************************************************************)
MaxOps == 2
MaxBatch == 2
MaxRecords == 101
DetectSteps == {5000}
HistorySteps == {1000000}
ContactLag == 5000

Aircraft(icao24, latitude, longitude, baro_altitude, velocity, vertical_rate, on_ground, squawk, lag) ==
    [icao24 |-> icao24, latitude |-> latitude, longitude |-> longitude,
     baro_altitude |-> baro_altitude, velocity |-> velocity,
     true_track |-> Some(90), vertical_rate |-> vertical_rate,
     on_ground |-> on_ground, squawk |-> squawk, last_contact |-> now - lag]

\* States as the feed delivers them at this moment: every field that may be
\* null is null in some of them.
AircraftInputs ==
    { Aircraft(1, lat, lon, alt, vel, vr, gnd, sq, ContactLag) :
        lat \in {Null, Some(45)}, lon \in {Null, Some(10)},
        alt \in {Null, Some(5000)}, vel \in {Null, Some(30)},
        vr \in {Null, Some(-25)}, gnd \in BOOLEAN,
        sq \in {Null, Some("7700")} }

\* States for a batch, by what they make the detectors emit: critical and
\* medium, high and low, medium alone, nothing, and a state without position.
BatchAircraft ==
    { Aircraft(1, Some(45), Some(10), Some(9000), Some(310), Null, FALSE,
               Some("7700"), ContactLag),
      Aircraft(2, Some(45), Some(10), Some(5000), Some(30), Some(-25), FALSE,
               Null, ContactLag),
      Aircraft(2, Some(45), Some(10), Some(9000), Some(310), Null, FALSE,
               Some("1200"), ContactLag),
      Aircraft(1, Some(45), Some(10), Some(9000), Some(200), Some(0), FALSE,
               Null, ContactLag),
      Aircraft(2, Null, Some(10), Some(9000), Some(310), Some(-25), FALSE,
               Some("7700"), ContactLag) }

BatchInputs ==
    UNION { [1..n -> BatchAircraft] : n \in 0..MaxBatch }

TrackPoint(time, latitude, baro_altitude) ==
    [time |-> time, latitude |-> latitude, longitude |-> Some(10),
     baro_altitude |-> baro_altitude, true_track |-> Some(90),
     on_ground |-> FALSE]

TrackInputs ==
    { [icao24 |-> 1, path |-> path] :
        path \in { << TrackPoint(now - 60000, Some(45), Some(5000)) >>,
                   << TrackPoint(now - 60000, Some(45), Some(5000)),
                      TrackPoint(now - 30000, Null, Some(4000)),
                      TrackPoint(now - 5000, Some(45), Some(400)) >> } }

Called(op, arg, pushed, result) ==
    /\ ops' = ops + 1
    /\ lastOp' = op
    /\ lastArg' = arg
    /\ emitted' = pushed
    /\ lastResult' = result
    /\ UNCHANGED << now, ticks, fetchVars >>

DetectAnomalies(aircraft) ==
    /\ ops < MaxOps
    /\ LET r == detectAnomalies(aircraftHistory, aircraft)
       IN  /\ aircraftHistory' = r.history
           /\ Called("detectAnomalies", << aircraft >>, r.anomalies,
                     r.anomalies)

\* Lines 389-402.
DetectAnomaliesBatch(aircraft) ==
    /\ ops < MaxOps
    /\ LET r == DetectEach(aircraftHistory, aircraft)
       IN  /\ aircraftHistory' = r.history
           /\ Called("detectAnomaliesBatch", aircraft, r.anomalies,
                     SortBySeverity(r.anomalies))

\* analyzeFlightTrack evaluating the track on a copy of the store.
AnalyzeFlightTrackIsolated(track) ==
    /\ ops < MaxOps
    /\ LET r == DetectEach(aircraftHistory, TrackStates(track))
       IN  /\ aircraftHistory' = aircraftHistory
           /\ Called("analyzeFlightTrack", << track >>, r.anomalies,
                     r.anomalies)

\* Lines 407-439.
AnalyzeFlightTrack(track) ==
    /\ ops < MaxOps
    /\ LET r == DetectEach(aircraftHistory, TrackStates(track))
       IN  /\ aircraftHistory' = r.history
           /\ Called("analyzeFlightTrack", << track >>, r.anomalies,
                     r.anomalies)

\* Sets of detectors that throw on one aircraft: none, one in the middle of
\* the pipeline, the first and the last.
ThrowingInputs ==
    { {}, {"detectAltitudeAnomaly"}, {"detectEmergencySquawk", "detectGoAround"} }

\* detectAnomaliesBatch over aircraft on which detectors throw.
DetectAnomaliesBatchThrowing(aircraft, throwing) ==
    /\ ops < MaxOps
    /\ LET r == DetectEachThrowing(aircraftHistory, aircraft, throwing)
       IN  /\ aircraftHistory' = r.history
           /\ Called("detectAnomaliesBatchThrowing", << aircraft, throwing >>,
                     r.anomalies, SortBySeverity(r.anomalies))

\* _internal.addToHistory.  The call returns nothing; lastResult notes how
\* many entries the filter (line 41) and the splice (line 45) removed.
AddToHistory(aircraft) ==
    /\ ops < MaxRecords
    /\ LET history == Append(aircraftHistory[aircraft.icao24],
                             HistoryEntry(aircraft))
           filtered == AgeTrim(history)
       IN  /\ aircraftHistory' = addToHistory(aircraftHistory, aircraft)
           /\ Called("addToHistory", << aircraft >>, << >>,
                     [byAge |-> Len(history) - Len(filtered),
                      byCount |-> Len(filtered) - Len(CountTrim(filtered))])

\* _internal.clearHistory, line 467.
ClearHistory ==
    /\ ops < MaxOps
    /\ aircraftHistory' = [i \in Icaos |-> << >>]
    /\ Called("clearHistory", << >>, << >>, << >>)

(***************************************************************************)
(* Initial states and specifications.                                      *)
(***************************************************************************)

InitDetect ==
    /\ aircraftHistory = [i \in Icaos |-> << >>]
    /\ ops = 0
    /\ lastOp = "none"
    /\ lastArg = << >>
    /\ emitted = << >>
    /\ lastResult = << >>

InitFetch ==
    /\ useOAuth2 \in BOOLEAN
    /\ oauthToken = Null
    /\ tokenExpiresAt = 0
    /\ tokensIssued = 0
    /\ lastRequestTime = 0
    /\ backoffUntil = 0
    /\ responseCache = [k \in CacheKeys |-> Null]
    /\ inflightRequests = [k \in CacheKeys |-> Null]
    /\ calls = [p \in Calls |-> IdleCall]
    /\ sent = << >>

InitClock ==
    /\ now = StartTime
    /\ ticks = 0

\* No OAuth2 client configured: basic credentials or none.
Init ==
    /\ InitClock
    /\ InitFetch
    /\ useOAuth2 = FALSE
    /\ InitDetect

\* OAuth2 client credentials configured.
InitOAuth ==
    /\ InitClock
    /\ InitFetch
    /\ useOAuth2 = TRUE
    /\ InitDetect

\* Either configuration.
InitAnyAuth ==
    /\ InitClock
    /\ InitFetch
    /\ InitDetect

Fetching ==
    \/ \E p \in Calls : Wake(p)
    \/ \E p \in Calls, st \in DataStatuses : Response(p, st)
    \/ \E d \in FetchSteps : Tick(d)

TokenSteps ==
    \/ \E p \in Calls, e \in ExpiresInChoices : TokenAcquired(p, e)
    \/ \E p \in Calls : TokenFailed(p)
    \/ \E p \in Calls : Unauthorized(p)

\* Every method of the client, without OAuth2.
Next ==
    \/ \E p \in Calls : getAllStates(p)
    \/ \E p \in Calls, bbox \in BboxArgs : getStatesByBoundingBox(p, bbox)
    \/ \E p \in Calls, l \in IcaoArgs : getStatesByIcao24(p, l)
    \/ \E p \in Calls, a \in TrackArgs : getFlightTrack(p, a)
    \/ Fetching

Spec == Init /\ [][Next]_vars

\* A deduplicated state read and a track lookup under OAuth2.
NextOAuth ==
    \/ \E p \in Calls : getAllStates(p)
    \/ \E p \in Calls, a \in TrackArgs : getFlightTrack(p, a)
    \/ Fetching
    \/ TokenSteps

SpecOAuth == InitOAuth /\ [][NextOAuth]_vars

\* getAllStates alone, under either configuration.
NextAllStates ==
    \/ \E p \in Calls : getAllStates(p)
    \/ Fetching
    \/ TokenSteps

SpecAllStates == InitAnyAuth /\ [][NextAllStates]_vars

\* What the event loop guarantees: a due timer callback runs (line 581).
\* Whether and when the upstream answers is not the program's to decide, and
\* rateLimitedFetch hands fetch no timeout and no abort signal (lines 599,
\* 607), so no step of the program ends a request that is never answered.
TimersFire == WF_vars(\E p \in Calls : Wake(p))

SpecAllStatesFair == SpecAllStates /\ TimersFire

\* Concurrent track lookups under OAuth2: rateLimitedFetch with the thinnest
\* caller, and no de-duplication in front of it.
NextTrack ==
    \/ \E p \in Calls, a \in TrackArgs : getFlightTrack(p, a)
    \/ Fetching
    \/ TokenSteps

SpecTrack == InitOAuth /\ [][NextTrack]_vars

\* The detection service fed by its three entry points.
NextDetect ==
    \/ \E aircraft \in AircraftInputs : DetectAnomalies(aircraft)
    \/ \E aircraft \in BatchInputs : DetectAnomaliesBatch(aircraft)
    \/ \E track \in TrackInputs : AnalyzeFlightTrack(track)
    \/ ClearHistory
    \/ \E d \in DetectSteps : Tick(d)

SpecDetect == Init /\ [][NextDetect]_vars

\* One aircraft recorded over and over while the clock runs.
NextHistory ==
    \/ AddToHistory(Aircraft(1, Some(45), Some(10), Some(9000), Some(200),
                             Some(0), FALSE, Null, ContactLag))
    \/ \E d \in HistorySteps : Tick(d)

SpecHistory == Init /\ [][NextHistory]_vars

\* Batches on whose aircraft detectors throw.
NextThrowing ==
    \/ \E aircraft \in BatchInputs :
         \E throwing \in [DOMAIN aircraft -> ThrowingInputs] :
             DetectAnomaliesBatchThrowing(aircraft, throwing)
    \/ \E d \in DetectSteps : Tick(d)

SpecThrowing == Init /\ [][NextThrowing]_vars

(***************************************************************************)
(* The detectors over a filled window.  The window of aircraft 1 is what   *)
(* earlier calls of detectAnomalies, one per poll, have left in            *)
(* aircraftHistory; the next call evaluates one more state against it.     *)
(***************************************************************************)
PollInterval == 10000

\* The k-th of n entries recorded so far, one poll apart (line 37).
WindowEntry(k, n, true_track, baro_altitude) ==
    [icao24 |-> 1, latitude |-> Some(45), longitude |-> Some(10),
     baro_altitude |-> baro_altitude, velocity |-> Some(200),
     true_track |-> true_track, vertical_rate |-> Some(0),
     on_ground |-> FALSE, squawk |-> Null,
     last_contact |-> StartTime - (n - k + 1) * PollInterval]

\* A level flight turning by step degrees per poll from heading start, the
\* heading unknown at entry gap (0: known everywhere).
HeadingWindow(n, start, step, gap) ==
    [k \in 1..n |->
        WindowEntry(k, n, IF k = gap THEN Null
                          ELSE Some((start + (k - 1) * step) % 360),
                    Some(9000))]

\* A straight flight whose last entries follow the altitudes of shape (m,
\* Null where unknown), level at the first of them before.
AltitudeWindow(n, shape) ==
    [k \in 1..n |->
        WindowEntry(k, n, Some(90),
                    IF k <= n - Len(shape) THEN shape[1]
                    ELSE shape[k - (n - Len(shape))])]

\* Window lengths around the minimum of 20 and the span of 30 of the holding
\* detector; turns by 20, 40, -40 and 180 degrees per poll, across 0/360.
HeadingWindows ==
    { HeadingWindow(n, start, step, gap) :
        n \in {18, 19, 30}, start \in {350, 0},
        step \in {0, 20, 40, 320, 180}, gap \in {0, 5} }

\* 5000 ft is 1524 m, 1500 ft lies between 457 m and 458 m, 1200 ft is 366 m.
AltitudeShapes ==
    { << Some(1524), Some(1000), Some(366), Some(500) >>,
      << Some(1524), Some(1000), Some(457), Some(500) >>,
      << Some(1524), Some(1000), Some(458), Some(500) >>,
      << Some(1524), Some(1000), Some(366) >>,
      << Some(366), Some(500) >>,
      << Some(1524), Some(1500), Null, Some(305), Some(366) >>,
      << Some(300), Some(400), Some(400), Some(400), Some(400), Some(400),
         Some(400), Some(400), Some(400), Some(400), Some(400), Some(400),
         Some(350), Some(500) >>,
      << Some(1524), Some(1000), Some(366), Some(500), Some(762), Some(762),
         Some(762), Some(762), Some(762), Some(762), Some(762), Some(762),
         Some(762), Some(762), Some(762), Some(762), Some(762), Some(762) >> }

\* Window lengths around the minimum of 10 and the span of 15 of the
\* go-around detector.
AltitudeWindows ==
    { AltitudeWindow(n, shape) :
        n \in {8, 9, 14, 20}, shape \in { sh \in AltitudeShapes : Len(sh) <= 8 } }
    \cup { AltitudeWindow(n, shape) :
        n \in {14, 18},
        shape \in { sh \in AltitudeShapes : Len(sh) \in 9..14 } }
    \cup { AltitudeWindow(18, shape) :
        shape \in { sh \in AltitudeShapes : Len(sh) > 14 } }

\* The turning and the descending windows, and for the detectors that look
\* at the last entry only an empty window and a level cruise of one entry.
WindowInputs ==
    HeadingWindows \cup AltitudeWindows
    \cup { << >>, HeadingWindow(1, 90, 0, 0) }

\* The state of aircraft 1 at the next poll, reported ContactLag ago.
NextState(true_track, baro_altitude, velocity, vertical_rate, on_ground) ==
    [icao24 |-> 1, latitude |-> Some(45), longitude |-> Some(10),
     baro_altitude |-> baro_altitude, velocity |-> velocity,
     true_track |-> true_track, vertical_rate |-> vertical_rate,
     on_ground |-> on_ground, squawk |-> Null,
     last_contact |-> now - ContactLag]

\* 80 kt lies between 41 and 42 m/s, 600 kt between 308 and 309 m/s;  a drop
\* of 100 m in 5 s is faster than 3000 ft/min, a drop of 10 m is not; a
\* vertical rate of -25 m/s is below -4000 ft/min.
WindowAircraft ==
    { NextState(Some(90), alt, vel, Some(0), gnd) :
        alt \in {Null, Some(0), Some(3000), Some(3001)},
        vel \in {Null, Some(0), Some(41), Some(42), Some(200), Some(308),
                 Some(309)},
        gnd \in BOOLEAN }
    \cup { NextState(Some(90), alt, Some(200), vr, gnd) :
        alt \in {Null, Some(9000), Some(8990), Some(8900)},
        vr \in {Null, Some(0), Some(-20), Some(-25)}, gnd \in BOOLEAN }
    \cup { NextState(track, alt, Some(200), vr, gnd) :
        track \in {Null, Some(0), Some(180)}, alt \in {Null, Some(762)},
        vr \in {Null, Some(0), Some(2), Some(3)}, gnd \in BOOLEAN }

\* The service with the window of aircraft 1 filled and one call to go.
InitWindow ==
    /\ InitClock
    /\ InitFetch
    /\ useOAuth2 = FALSE
    /\ aircraftHistory \in
           { [i \in Icaos |-> IF i = 1 THEN w ELSE << >>] : w \in WindowInputs }
    /\ ops = MaxOps - 1
    /\ lastOp = "none"
    /\ lastArg = << >>
    /\ emitted = << >>
    /\ lastResult = << >>

NextWindow == \E aircraft \in WindowAircraft : DetectAnomalies(aircraft)

SpecWindow == InitWindow /\ [][NextWindow]_vars

(***************************************************************************)
(* The three entry points of the detection service, one after the other,   *)
(* starting from an empty store or from a window that earlier polls have   *)
(* filled.                                                                 *)
(***************************************************************************)
\* 30 polls of a flight that turns by 40 degrees per poll and, over its last
\* four polls, comes down from 5000 ft to 1200 ft and climbs again.
CombinedWindow ==
    [k \in 1..30 |->
        WindowEntry(k, 30, Some((350 + (k - 1) * 40) % 360),
                    IF k <= 26 THEN Some(1524)
                    ELSE << Some(1000), Some(366), Some(500),
                            Some(762) >>[k - 26])]

\* States of aircraft 1 at the next poll: climbing fast and low after a drop,
\* level after a drop, slow and high in a steep descent; with and without an
\* emergency code; without a fix, on the equator at the prime meridian, and
\* elsewhere.
EntryAircraft ==
    { [NextState(Some(110), kin[1], kin[2], kin[3], FALSE)
          EXCEPT !.squawk = sq, !.latitude = pos[1], !.longitude = pos[2]] :
        kin \in { << Some(600), Some(309), Some(3) >>,
                  << Some(8900), Some(200), Some(0) >>,
                  << Some(9000), Some(41), Some(-25) >> },
        sq \in {Null, Some("7700")},
        pos \in { << Null, Some(10) >>, << Some(0), Some(0) >>,
                  << Some(45), Some(10) >>, << Some(-33), Some(0) >> } }

\* The k-th point of a recorded track, flown two hours before the process
\* started.
ReplayPoint(k, latitude, true_track, baro_altitude) ==
    [time |-> StartTime - 7200000 + k * PollInterval, latitude |-> latitude,
     longitude |-> Some(10), baro_altitude |-> baro_altitude,
     true_track |-> true_track, on_ground |-> FALSE]

\* Tracks of aircraft 1: one point that goes on from the filled window; four
\* points down to 1200 ft and up again, the second without a position.
ReplayTracks ==
    { [icao24 |-> 1, path |-> path] :
        path \in {
          << ReplayPoint(1, Some(45), Some(110), Some(600)) >>,
          << ReplayPoint(1, Some(45), Some(90), Some(1000)),
             ReplayPoint(2, Null, Some(90), Some(700)),
             ReplayPoint(3, Some(45), Some(90), Some(366)),
             ReplayPoint(4, Some(45), Some(90), Some(500)) >> } }

InitEntries ==
    /\ InitClock
    /\ InitFetch
    /\ useOAuth2 = FALSE
    /\ aircraftHistory \in
           { [i \in Icaos |-> IF i = 1 THEN w ELSE << >>] :
               w \in { << >>, CombinedWindow,
                        AltitudeWindow(10, << Some(1524) >>) } }
    /\ ops = 0
    /\ lastOp = "none"
    /\ lastArg = << >>
    /\ emitted = << >>
    /\ lastResult = << >>

NextEntries ==
    \/ \E aircraft \in EntryAircraft : DetectAnomalies(aircraft)
    \/ \E aircraft \in UNION { [1..n -> { a \in EntryAircraft :
                                            /\ a.squawk # Null
                                            /\ a.latitude = Some(45)
                                            /\ a.velocity # Some(200) }] :
                               n \in 0..MaxBatch } :
           DetectAnomaliesBatch(aircraft)
    \/ \E track \in ReplayTracks : AnalyzeFlightTrack(track)

SpecEntries == InitEntries /\ [][NextEntries]_vars

(***************************************************************************)
(* Statistics.                                                             *)
(***************************************************************************)
\* getAnomalyStats counting each type once, however often it occurs.
getAnomalyStatsTypePresence(anomalies) ==
    LET Count(severity) ==
            Cardinality({i \in DOMAIN anomalies :
                             anomalies[i].severity = severity})
        types == {anomalies[i].type : i \in DOMAIN anomalies}
    IN  [key \in {"total", "critical", "high", "medium", "low"} \cup types |->
            IF key \in types THEN 1
            ELSE IF key = "total" THEN Len(anomalies)
            ELSE Count(key)]

\* Lines 444-461.  The result is the record { ...stats, ...byType } as a
\* function of its keys: a key of byType overrides the same key of stats.
getAnomalyStats(anomalies) ==
    LET stats == [key \in {"total", "critical", "high", "medium", "low"} |->
                    IF key = "total" THEN Len(anomalies)
                    ELSE Cardinality({i \in DOMAIN anomalies :
                                          anomalies[i].severity = key})]
        byType == [type \in {anomalies[i].type : i \in DOMAIN anomalies} |->
                     Cardinality({i \in DOMAIN anomalies :
                                      anomalies[i].type = type})]
    IN  [key \in DOMAIN stats \cup DOMAIN byType |->
            IF key \in DOMAIN byType THEN byType[key] ELSE stats[key]]

MaxAnomalies == 3

\* Lists of the anomalies the detectors emit, by type and severity.
AnomalyLists ==
    LET kinds == { << "emergency_squawk", "critical" >>,
                   << "rapid_descent", "high" >>,
                   << "altitude_drop", "high" >>,
                   << "holding_pattern", "medium" >>,
                   << "unusual_speed", "medium" >>,
                   << "unusual_speed", "low" >>,
                   << "go_around", "medium" >> }
        each == { Anomaly(NextState(Some(90), Some(9000), Some(200), Some(0),
                                    FALSE), kind[1], kind[2], << >>) :
                    kind \in kinds }
    IN  UNION { [1..n -> each] : n \in 0..MaxAnomalies }

GetAnomalyStats(anomalies) ==
    /\ ops < MaxOps
    /\ aircraftHistory' = aircraftHistory
    /\ Called("getAnomalyStats", anomalies, << >>, getAnomalyStats(anomalies))

SpecStats ==
    Init /\ [][\E anomalies \in AnomalyLists : GetAnomalyStats(anomalies)]_vars

(***************************************************************************)
(* The normalizer.  A JSON value is a record of its type and its value; a  *)
(* string is the sequence of its characters.  A raw state is a JSON array  *)
(* of any length, or not an array at all.                                  *)
(***************************************************************************)
JsNull == [t |-> "null", v |-> << >>]
JsUndefined == [t |-> "undefined", v |-> << >>]
\* A string, a number, a boolean, an array.
Js(t, v) == [t |-> t, v |-> IF t \in {"number", "boolean"} THEN << v >> ELSE v]

\* ToBoolean of a JSON value.
Truthy(x) ==
    CASE x.t = "string" -> x.v # << >>
      [] x.t = "number" -> x.v # << 0 >>
      [] x.t = "boolean" -> x.v = << TRUE >>
      [] x.t = "array" -> TRUE
      [] OTHER -> FALSE

\* state[i]: undefined beyond the end of the array.
Index(state, i) ==
    IF i + 1 \in DOMAIN state.v THEN state.v[i + 1] ELSE JsUndefined

\* String.prototype.trim on a sequence of characters.
RECURSIVE TrimStart(_)
TrimStart(chars) ==
    IF chars # << >> /\ Head(chars) = " " THEN TrimStart(Tail(chars))
    ELSE chars

RECURSIVE TrimEnd(_)
TrimEnd(chars) ==
    IF chars # << >> /\ chars[Len(chars)] = " "
    THEN TrimEnd(SubSeq(chars, 1, Len(chars) - 1))
    ELSE chars

Trim(chars) == TrimEnd(TrimStart(chars))

Thrown == [tag |-> "throw", aircraft |-> << >>]
Parsed(aircraft) == [tag |-> "ok", aircraft |-> << aircraft >>]

\* Lines 613-633.  The casts do nothing at run time: each field is whatever
\* sits at its index, undefined when the array is shorter.  Reading an index
\* of null, or calling trim on a truthy value that is not a string, throws a
\* TypeError.  Index 12 (sensors) is not read.
parseStateVector(state) ==
    IF state.t # "array" THEN Thrown
    ELSE IF Truthy(Index(state, 1)) /\ Index(state, 1).t # "string" THEN Thrown
    ELSE Parsed(
        [icao24 |-> Index(state, 0),
         callsign |-> IF Truthy(Index(state, 1))
                      THEN Js("string", Trim(Index(state, 1).v)) ELSE JsNull,
         origin_country |-> Index(state, 2),
         time_position |-> Index(state, 3),
         last_contact |-> Index(state, 4),
         longitude |-> Index(state, 5),
         latitude |-> Index(state, 6),
         baro_altitude |-> Index(state, 7),
         on_ground |-> Index(state, 8),
         velocity |-> Index(state, 9),
         true_track |-> Index(state, 10),
         vertical_rate |-> Index(state, 11),
         geo_altitude |-> Index(state, 13),
         squawk |-> Index(state, 14),
         spi |-> Index(state, 15),
         position_source |-> Index(state, 16),
         category |-> Index(state, 17)])

\* Lines 668-680 (726-738, 811-824): the body of a 2xx answer inside the
\* try.  data.states.map(parseStateVector) is one expression: a throw on any
\* entry leaves the try before setCache, and the catch answers with the
\* payload read from the cache at the start of the call, or the empty list.
\* written is what setCache received, Null when it was not called.
StatesBody(cached, states) ==
    IF ~Truthy(states)
    THEN [result |-> << >>, written |-> Some(<< >>)]
    ELSE LET each == [i \in DOMAIN states.v |-> parseStateVector(states.v[i])]
         IN  IF \E i \in DOMAIN each : each[i].tag = "throw"
             THEN [result |-> IF cached = Null THEN << >>
                              ELSE Val(cached).data,
                   written |-> Null]
             ELSE LET result == [i \in DOMAIN each |-> each[i].aircraft[1]]
                  IN  [result |-> result, written |-> Some(result)]

\* A record of the positional schema with n fields, callsign and category as
\* given.
RawState(n, callsign, category) ==
    Js("array", [i \in 1..n |->
        CASE i = 1 -> Js("string", << "a", "b", "1" >>)
          [] i = 2 -> callsign
          [] i = 3 -> Js("string", << "U", "S" >>)
          [] i \in {4, 5} -> Js("number", 1700000000)
          [] i = 6 -> Js("number", 10)
          [] i = 7 -> Js("number", 45)
          [] i = 8 -> Js("number", 9000)
          [] i \in {9, 16} -> Js("boolean", FALSE)
          [] i = 10 -> Js("number", 200)
          [] i = 11 -> Js("number", 90)
          [] i = 12 -> Js("number", 0)
          [] i \in {13, 15} -> JsNull
          [] i = 14 -> Js("number", 9100)
          [] i = 17 -> Js("number", 0)
          [] i = 18 -> category
          [] OTHER -> JsNull])

\* Field counts around the documented 18; callsigns as the feed pads them,
\* blank, absent, and one of the wrong type; and an entry that is no array.
RawStateInputs ==
    { RawState(n, callsign, Js("number", 1)) :
        n \in {0, 3, 17, 18, 19},
        callsign \in { Js("string", << "U", "A", "L", " ", " " >>),
                       Js("string", << " ", " " >>), JsNull,
                       Js("number", 7) } } \cup { JsNull }

MaxStates == 2

StatesInputs ==
    { Js("array", states) :
        states \in UNION { [1..n -> RawStateInputs] : n \in 0..MaxStates } }
    \cup { JsNull }

\* What a call may have read from the cache when it started.
CachedInputs ==
    { Null,
      Some([data |-> << parseStateVector(RawState(18, JsNull, JsNull))
                            .aircraft[1] >>,
            fresh |-> FALSE]) }

ParseStateVector(state) ==
    /\ ops < MaxOps
    /\ aircraftHistory' = aircraftHistory
    /\ Called("parseStateVector", << state >>, << >>,
              parseStateVector(state))

StatesReceived(cached, states) ==
    /\ ops < MaxOps
    /\ aircraftHistory' = aircraftHistory
    /\ Called("statesReceived", << cached, states >>, << >>,
              StatesBody(cached, states))

NextParse ==
    \/ \E state \in RawStateInputs : ParseStateVector(state)
    \/ \E cached \in CachedInputs, states \in StatesInputs :
           StatesReceived(cached, states)

SpecParse == Init /\ [][NextParse]_vars

(***************************************************************************)
(* Properties of the acquisition client.                                   *)
(***************************************************************************)
StateKinds == {"all", "bbox", "icao"}

\* A call whose own upstream call (rateLimitedFetch) is under way.
InNetwork(c) ==
    c.how = "net"
    /\ c.pc \in {"sleep", "tokenWait", "fetchWait", "tokenWait2", "fetchWait2"}

\* The requests call p has sent, in order.
SentBy(p) ==
    LET Mine(e) == e.call = p
    IN  SelectSeq(sent, Mine)

\* C1: for every request key (all-states, bounding box, ICAO24 set), a call
\* made while an earlier call for the same key is still fetching, with no
\* fresh cache entry and no backoff, issues no upstream call of its own: it
\* awaits the earlier call's result and receives the same payload.
C1_SingleFlight ==
    \A p, q \in Calls :
        /\ ( /\ p < q
             /\ calls[p].kind \in StateKinds
             /\ calls[q].kind = calls[p].kind
             /\ calls[q].key = calls[p].key
             /\ InNetwork(calls[p])
             /\ calls[q].how \notin {"none", "fresh", "backoff"} )
           => (calls[q].how = "joined" /\ calls[q].owner = p)
        /\ (calls[q].how = "joined" /\ calls[q].pc = "done")
           => calls[q].result = calls[calls[q].owner].result

\* C2: any two requests sent to the upstream data API are sent at least
\* minRequestInterval apart, the retry after a 401 included.
C2_PacedRequests ==
    \A i, j \in DOMAIN sent :
        i < j => sent[j].t - sent[i].t >= minRequestInterval

\* C3: no request is sent to the upstream before the cooldown deadline in
\* force, and a state call made under the cooldown is answered with the
\* cached payload or the empty list without a request.
C3_NoRequestInCooldown ==
    /\ \A i \in DOMAIN sent : ~(sent[i].t < sent[i].backoffUntil)
    /\ \A p \in Calls :
           calls[p].how = "backoff"
           => /\ calls[p].nreq = 0
              /\ calls[p].result = DataResult(CachedOrEmpty(calls[p].cached))

\* The statuses with which the fetch of a state call fails: nothing is
\* cached and no cooldown starts.
FailedStatuses == {"500", "401", "autherr"}

C9_RetryOnce ==
    \A p \in Calls :
        LET c == calls[p]
            mine == SentBy(p)
        IN  /\ c.nreq <= 2
            /\ Len(mine) = c.nreq
            /\ c.nreq >= 1 => ~mine[1].retry
            /\ c.nreq = 2 => /\ mine[2].retry
                             /\ mine[2].token # Null
                             /\ mine[2].token # mine[1].token
            /\ c.pc \in {"tokenWait2", "fetchWait2"} => useOAuth2
            /\ c.status = "401" => c.nreq = 2

\* A retry was sent and answered 401 again, and that answer was returned.
C9_Witness ==
    \E p \in Calls :
        /\ calls[p].pc = "done"
        /\ calls[p].status = "401"
        /\ calls[p].nreq = 2
        /\ SentBy(p)[2].retry

\* C10: a state call whose upstream request is answered 429 starts the
\* cooldown and returns the cached payload of its key, or the empty list.
C10_ThrottledAbsorbed ==
    [][\A p \in Calls :
          ( /\ calls[p].pc # "done"
            /\ calls'[p].pc = "done"
            /\ calls'[p].status = "429"
            /\ calls'[p].kind \in StateKinds )
          => /\ backoffUntil' = now + BACKOFF_SECONDS * 1000
             /\ calls'[p].result = DataResult(CachedOrEmpty(calls[p].cached))
      ]_vars

(***************************************************************************)
(* Properties of the detection service.                                    *)
(***************************************************************************)
\* Stated on the fields, not through the program's own test.
HasPosition(aircraft) == aircraft.latitude # Null /\ aircraft.longitude # Null
LacksPosition(aircraft) == aircraft.latitude = Null \/ aircraft.longitude = Null

OfType(anomalies, type) ==
    LET Is(a) == a.type = type
    IN  SelectSeq(anomalies, Is)

OfSeverity(anomalies, severity) ==
    LET Is(a) == a.severity = severity
    IN  SelectSeq(anomalies, Is)

\* C5: detectAnomalies on a state whose latitude or longitude is null returns
\* no anomaly and leaves the history store as it was, whatever the other
\* fields are; a batch behaves as if such states were not in it.
C5_NoPositionSkipped ==
    [][/\ ( /\ lastOp' = "detectAnomalies" /\ ops' = ops + 1
            /\ LacksPosition(lastArg'[1]) )
          => (lastResult' = << >> /\ aircraftHistory' = aircraftHistory)
       /\ ( lastOp' = "detectAnomaliesBatch" /\ ops' = ops + 1 )
          => LET r == DetectEach(aircraftHistory,
                                 SelectSeq(lastArg', HasPosition))
             IN  /\ aircraftHistory' = r.history
                 /\ emitted' = r.anomalies
      ]_vars

\* A state squawking 7700 without latitude was evaluated while the store
\* held entries: nothing was returned.
C5_Witness ==
    /\ lastOp = "detectAnomalies"
    /\ lastArg[1].latitude = Null
    /\ lastArg[1].longitude # Null
    /\ lastArg[1].squawk = Some("7700")
    /\ aircraftHistory[lastArg[1].icao24] # << >>
    /\ lastResult = << >>

\* C6 (amended): for every state that squawks 7700 and has a latitude and a
\* longitude, whatever other fields are absent, detectAnomalies returns
\* exactly one emergency_squawk anomaly, of severity critical.
C6_EmergencySquawk ==
    ( /\ lastOp = "detectAnomalies"
      /\ lastArg[1].squawk = Some("7700")
      /\ HasPosition(lastArg[1]) )
    => LET found == OfType(lastResult, "emergency_squawk")
       IN  Len(found) = 1 /\ found[1].severity = "critical"

\* C6 as stated: for every state that squawks 7700, whatever other fields
\* are absent, detectAnomalies returns exactly one emergency_squawk anomaly,
\* of severity critical.
C6_EmergencySquawkAlways ==
    ( lastOp = "detectAnomalies" /\ lastArg[1].squawk = Some("7700") )
    => LET found == OfType(lastResult, "emergency_squawk")
       IN  Len(found) = 1 /\ found[1].severity = "critical"

\* 7700 with a position and every other optional field null.
C6_Witness ==
    /\ lastOp = "detectAnomalies"
    /\ lastArg[1].squawk = Some("7700")
    /\ HasPosition(lastArg[1])
    /\ lastArg[1].baro_altitude = Null
    /\ lastArg[1].velocity = Null
    /\ lastArg[1].vertical_rate = Null
    /\ Len(lastResult) = 1
    /\ lastResult[1].type = "emergency_squawk"
    /\ lastResult[1].severity = "critical"

\* C7: after addToHistory the aircraft's window holds at most
\* HISTORY_MAX_SIZE entries, none older than HISTORY_RETENTION_MS, and the
\* age filter ran first: it removed every over-age entry of the window, and
\* the splice removed only what the filter left beyond the cap.
C7_WindowTrimmed ==
    [][( lastOp' = "addToHistory" /\ ops' = ops + 1 )
       => LET icao24 == lastArg'[1].icao24
              before == aircraftHistory[icao24]
              window == aircraftHistory'[icao24]
              overAge == Cardinality({i \in DOMAIN before :
                             now - before[i].last_contact
                             >= HISTORY_RETENTION_MS})
              left == Len(before) + 1 - overAge
          IN  /\ Len(window) <= HISTORY_MAX_SIZE
              /\ \A i \in DOMAIN window :
                     now - window[i].last_contact <= HISTORY_RETENTION_MS
              /\ lastResult'.byAge = overAge
              /\ lastResult'.byCount
                 = (IF left > HISTORY_MAX_SIZE
                    THEN left - HISTORY_MAX_SIZE ELSE 0)
      ]_vars

\* A record call on a full window whose oldest entries were recorded earlier
\* and are still within the retention time: the splice removed one entry.
C7_Witness ==
    /\ lastOp = "addToHistory"
    /\ lastResult.byAge = 0
    /\ lastResult.byCount = 1
    /\ Len(aircraftHistory[lastArg[1].icao24]) = HISTORY_MAX_SIZE
    /\ aircraftHistory[lastArg[1].icao24][1].last_contact < now

\* C8: the list detectAnomaliesBatch returns is ordered critical, high,
\* medium, low, and the anomalies of one severity keep their emission order.
C8_StableSeverityOrder ==
    lastOp = "detectAnomaliesBatch"
    => /\ Len(lastResult) = Len(emitted)
       /\ \A i, j \in DOMAIN lastResult :
              i < j => severityOrder(lastResult[i].severity)
                       <= severityOrder(lastResult[j].severity)
       /\ \A sev \in {"critical", "high", "medium", "low"} :
              OfSeverity(lastResult, sev) = OfSeverity(emitted, sev)

\* The sort moved an anomaly forward across two different anomalies of one
\* severity, which kept their order.
C8_Witness ==
    /\ lastOp = "detectAnomaliesBatch"
    /\ lastResult # emitted
    /\ \E i, j \in DOMAIN lastResult :
           /\ i < j
           /\ lastResult[i].severity = lastResult[j].severity
           /\ lastResult[i] # lastResult[j]

(***************************************************************************)
(* Failure handling of the client's methods.                               *)
(***************************************************************************)
\* C11: a getAllStates or getStatesByBoundingBox call whose fetch fails (a
\* network error or a non-2xx, non-429 response) returns the cached payload
\* of its key when it has one, and otherwise fails towards its caller.
C11_DegradesOrPropagates ==
    \A p \in Calls :
        ( /\ calls[p].pc = "done"
          /\ calls[p].kind \in {"all", "bbox"}
          /\ calls[p].how = "net"
          /\ calls[p].status \in FailedStatuses )
        => calls[p].result = (IF calls[p].cached # Null
                              THEN DataResult(Val(calls[p].cached).data)
                              ELSE ErrorResult)

\* C12: getFlightTrack turns a 404, and nothing else, into null; every other
\* failure reaches the caller as an error; a track is returned only for a
\* successful response, and it is that response's own payload.
C12_TrackFailurePropagates ==
    \A p \in Calls :
        (calls[p].kind = "track" /\ calls[p].pc = "done")
        => /\ calls[p].status = "404" <=> calls[p].result = NullResult
           /\ calls[p].status \in FailedStatuses
              <=> calls[p].result = ErrorResult
           /\ calls[p].result.tag = "data"
              => /\ calls[p].status = "200"
                 /\ calls[p].result.data = calls[p].req
                 /\ calls[p].result.data # EmptyList

\* One track lookup ended in an error and another one in null.
C12_Witness ==
    \E p, q \in Calls :
        /\ calls[p].kind = "track" /\ calls[p].pc = "done"
        /\ calls[p].status = "500" /\ calls[p].result = ErrorResult
        /\ calls[q].kind = "track" /\ calls[q].pc = "done"
        /\ calls[q].status = "404" /\ calls[q].result = NullResult

\* C13: an upstream request that is never answered does not hold up later
\* calls: the call that sent it eventually settles, the in-flight marker of
\* its key is eventually removed, and a caller waiting on it eventually gets
\* its result.
C13_HungCallEnds ==
    /\ \A p \in Calls :
           (calls[p].pc \in {"fetchWait", "fetchWait2", "joined"})
           ~> (calls[p].pc = "done")
    /\ (inflightRequests[AllStatesKey] # Null)
       ~> (inflightRequests[AllStatesKey] = Null)

(***************************************************************************)
(* In-flight marker and bearer token.                                      *)
(***************************************************************************)
\* The de-duplicated calls for key k whose own upstream call is under way.
Fetchers(k) ==
    {p \in Calls : /\ Deduplicated(calls[p].kind)
                   /\ calls[p].key = k
                   /\ InNetwork(calls[p])}

\* C14: the in-flight marker of a key is present exactly while an upstream
\* call for that key is under way, from its start until it settles in any
\* way, and names that call; there is never a second upstream call for the
\* key beside it, and a caller handed the pending result waits on the call
\* the marker names.
C14_MarkerWhileInFlight ==
    /\ \A k \in CacheKeys :
           /\ Cardinality(Fetchers(k)) <= 1
           /\ inflightRequests[k] # Null <=> Fetchers(k) # {}
           /\ inflightRequests[k] # Null
              => Fetchers(k) = {Val(inflightRequests[k])}
    /\ \A q \in Calls :
           calls[q].pc = "joined"
           => inflightRequests[calls[q].key] = Some(calls[q].owner)

\* A failed call has settled together with the caller that waited on it,
\* and the marker is gone.
C14_Witness ==
    /\ calls[1].kind = "all" /\ calls[1].how = "net"
    /\ calls[1].pc = "done" /\ calls[1].status = "500"
    /\ calls[2].how = "joined" /\ calls[2].owner = 1
    /\ calls[2].pc = "done"
    /\ inflightRequests[AllStatesKey] = Null

\* The tokens a 401 has sent into the refresh branch: the token of the first
\* request of every call that went on to ask for a new one.
RejectedTokens ==
    {SentBy(p)[1].token :
        p \in {q \in Calls :
                 /\ calls[q].nreq >= 1
                 /\ \/ calls[q].pc \in {"tokenWait2", "fetchWait2"}
                    \/ calls[q].pc = "done" /\ calls[q].nreq = 2
                    \/ calls[q].pc = "done" /\ calls[q].status = "autherr"}}

\* C15: with concurrent requests acquiring and invalidating the bearer token
\* in any order, no request is held up by another one (the answer to its
\* token request or data request can always be taken), and the cached token
\* is at all times, so also once all have settled, either absent or a token
\* the auth server issued that no 401 has sent into the refresh branch.
C15_TokenRaceSafe ==
    /\ \A p \in Calls :
           /\ calls[p].pc \in {"tokenWait", "tokenWait2"}
              => /\ \A e \in ExpiresInChoices : ENABLED TokenAcquired(p, e)
                 /\ ENABLED TokenFailed(p)
           /\ calls[p].pc \in {"fetchWait", "fetchWait2"}
              => ENABLED Response(p, "200")
    /\ oauthToken # Null => Val(oauthToken) \in 1 .. tokensIssued
    /\ oauthToken \notin RejectedTokens

\* Two overlapping lookups were both answered 401, both refreshed, and both
\* have settled; a token is cached.
C15_Witness ==
    /\ calls[1].pc = "done" /\ calls[1].nreq = 2
    /\ calls[2].pc = "done" /\ calls[2].nreq = 2
    /\ calls[2].start < SentBy(1)[2].t
    /\ tokensIssued >= 3
    /\ oauthToken # Null

(***************************************************************************)
(* Cache tiers and backoff.                                                *)
(***************************************************************************)
\* The call returned the payload it read from the cache when it started.
ReturnedCached(c) ==
    /\ c.pc = "done"
    /\ c.cached # Null
    /\ c.result = DataResult(Val(c.cached).data)

\* The entry the call read was at least CACHE_TTL_MS old when it read it:
\* judged by the entry's timestamp while the entry is still in the cache.
ReadStaleEntry(c) ==
    /\ c.cached # Null
    /\ responseCache[c.key] # Null
    /\ Val(responseCache[c.key]).data = Val(c.cached).data
    /\ c.start - Val(responseCache[c.key]).timestamp >= CACHE_TTL_MS

\* The upstream call behind the call's result, its own or the one it was
\* handed, did not succeed.
UpstreamDidNotSucceed(c) ==
    \/ c.how = "net" /\ c.status \in {"429"} \cup FailedStatuses
    \/ /\ c.how = "joined"
       /\ calls[c.owner].status \in {"429"} \cup FailedStatuses

C17_NoPayloadBeyondStaleTtl ==
    [][ \A p \in Calls :
          ( /\ calls[p].kind \in StateKinds
            /\ calls[p].pc # "done"
            /\ calls'[p].pc = "done"
            /\ ReturnedCached(calls'[p])
            /\ responseCache'[calls[p].key] # Null
            /\ Val(responseCache'[calls[p].key]).data = Val(calls'[p].cached).data )
          => now' - Val(responseCache'[calls[p].key]).timestamp < STALE_TTL_MS ]_vars

\* C18: at the step a state call's upstream request is answered
\* successfully, the parsed response is written into the cache under the
\* call's key with the current time, and no cooldown is active afterwards.
C18_SuccessCachesAndClearsBackoff ==
    [][ \A p \in Calls :
          ( /\ calls[p].kind \in StateKinds
            /\ calls[p].pc # "done"
            /\ calls'[p].pc = "done"
            /\ calls'[p].how = "net"
            /\ calls'[p].status \in OkStatuses )
          => /\ responseCache'[calls[p].key]
                  = Some([data |-> IF calls'[p].status = "200"
                                   THEN calls[p].req ELSE EmptyList,
                          timestamp |-> now'])
             /\ ~(now' < backoffUntil') ]_vars

\* The cache half of C18 alone.
C18_SuccessCaches ==
    [][ \A p \in Calls :
          ( /\ calls[p].kind \in StateKinds
            /\ calls[p].pc # "done"
            /\ calls'[p].pc = "done"
            /\ calls'[p].how = "net"
            /\ calls'[p].status \in OkStatuses )
          => responseCache'[calls[p].key] # Null ]_vars

\* The backoff half of C18 alone.
C18_SuccessClearsBackoff ==
    [][ \A p \in Calls :
          ( /\ calls[p].kind \in StateKinds
            /\ calls[p].pc # "done"
            /\ calls'[p].pc = "done"
            /\ calls'[p].how = "net"
            /\ calls'[p].status \in OkStatuses )
          => ~(now' < backoffUntil') ]_vars

\* The step at which call p of the given kind receives a 429.
Receives429(p, kind) ==
    /\ calls[p].kind = kind
    /\ calls[p].pc # "done"
    /\ calls'[p].pc = "done"
    /\ calls'[p].how = "net"
    /\ calls'[p].status = "429"

\* C19: one backoff policy for all request types: a 429 received by an
\* all-states, a bounding-box or an ICAO24 call sets the cooldown deadline to
\* BACKOFF_SECONDS after the moment it is received.
C19_UniformBackoff ==
    [][ \A p \in Calls : \A kind \in StateKinds :
          Receives429(p, kind) => backoffUntil' = now' + BACKOFF_SECONDS * 1000 ]_vars

(***************************************************************************)
(* Token acquisition failure.                                              *)
(***************************************************************************)
\* The sending half of C20: with bearer auth configured every request carries
\* a token, and a call whose first token acquisition failed sent nothing.
C20_NeverSentUnauthenticated ==
    useOAuth2 =>
        /\ \A i \in 1..Len(sent) : sent[i].token # Null
        /\ \A p \in Calls :
              (calls[p].status = "autherr" /\ calls[p].nreq = 0)
                  => SentBy(p) = << >>

\* C20: with bearer auth configured, a state call whose token acquisition
\* failed sent no unauthenticated request and ends with an error, not with
\* cached or empty data.
C20_AuthFailurePropagates ==
    /\ C20_NeverSentUnauthenticated
    /\ useOAuth2 =>
          \A p \in Calls :
              ( /\ calls[p].kind \in StateKinds
                /\ calls[p].pc = "done"
                /\ calls[p].how = "net"
                /\ calls[p].status = "autherr" )
              => calls[p].result = ErrorResult

(***************************************************************************)
(* Properties of the normalizer.                                           *)
(***************************************************************************)
\* An entry of the documented schema: an array of 18 fields whose callsign
\* is a string or null.
WellFormed(state) ==
    /\ state.t = "array"
    /\ Len(state.v) = 18
    /\ state.v[2].t \in {"string", "null"}

\* C21: a batch with a malformed entry is answered with the parsed aircraft
\* of all its other entries, in order: the malformed entry is skipped and the
\* batch is neither aborted nor replaced by cached or empty data.
C21_MalformedEntrySkipped ==
    lastOp = "statesReceived" /\ lastArg[2].t = "array"
        => LET good == SelectSeq(lastArg[2].v, WellFormed)
           IN  lastResult.result
                   = [i \in DOMAIN good
                          |-> parseStateVector(good[i]).aircraft[1]]

\* What the code does: the batch is given up, and nothing cached, exactly
\* when some entry makes parseStateVector throw; an entry that is only
\* short or long is kept.
C21_MalformedEntryAborts ==
    lastOp = "statesReceived" /\ lastArg[2].t = "array"
        => (lastResult.written = Null
               <=> \E i \in DOMAIN lastArg[2].v :
                       parseStateVector(lastArg[2].v[i]).tag = "throw")

\* C22: parse yields an aircraft state for every record of 18 fields and
\* fails for every record with another field count.
C22_FieldCountChecked ==
    lastOp = "parseStateVector" /\ lastArg[1].t = "array"
        => (lastResult.tag = "ok" <=> Len(lastArg[1].v) = 18)

(***************************************************************************)
(* Detector isolation.                                                     *)
(***************************************************************************)
\* What the detectors that do not throw yield on one aircraft, in pipeline
\* order, each detector applied on its own.
RECURSIVE Surviving(_, _, _, _)
Surviving(aircraft, history, throwing, names) ==
    IF names = << >> THEN << >>
    ELSE (IF Head(names) \in throwing THEN << >>
          ELSE Detector(Head(names), aircraft, history))
         \o Surviving(aircraft, history, throwing, Tail(names))

\* The anomalies a batch owes: for each aircraft with a position, in batch
\* order, what the surviving detectors yield on the window that holds the
\* aircraft recorded so far.
RECURSIVE Owed(_, _, _)
Owed(store, aircraft, throwing) ==
    IF aircraft = << >> THEN << >>
    ELSE LET ac == Head(aircraft)
             recorded == IF LacksPosition(ac) THEN store
                         ELSE addToHistory(store, ac)
         IN  (IF LacksPosition(ac) THEN << >>
              ELSE Surviving(ac, recorded[ac.icao24], Head(throwing),
                             << "detectEmergencySquawk",
                                "detectAltitudeAnomaly",
                                "detectHoldingPattern",
                                "detectSpeedAnomaly", "detectGoAround" >>))
             \o Owed(recorded, Tail(aircraft), Tail(throwing))

\* C23: a detector that throws is caught: the detectors after it still run on
\* the same aircraft, the call yields the anomalies of the detectors that did
\* not throw, and the batch goes on with the remaining aircraft.
C23_DetectorIsolated ==
    [][ lastOp' = "detectAnomaliesBatchThrowing" /\ ops' = ops + 1
          => emitted' = Owed(aircraftHistory, lastArg'[1], lastArg'[2]) ]_vars

\* The altitude detector threw on the first aircraft, which still yielded
\* its low-speed anomaly; the second aircraft was evaluated after it.
C23_Witness ==
    /\ lastOp = "detectAnomaliesBatchThrowing"
    /\ Len(lastArg[1]) = 2
    /\ lastArg[2][1] = {"detectAltitudeAnomaly"}
    /\ lastArg[1][1].vertical_rate = Some(-25)
    /\ lastArg[1][1].icao24 # lastArg[1][2].icao24
    /\ Len(emitted) = 3
    /\ emitted[1].type = "unusual_speed"
    /\ emitted[1].flight_icao24 = lastArg[1][1].icao24
    /\ emitted[2].type = "emergency_squawk"
    /\ emitted[2].flight_icao24 = lastArg[1][2].icao24
    /\ OfType(emitted, "rapid_descent") = << >>

(***************************************************************************)
(* Properties of the detectors over a filled window.                       *)
(***************************************************************************)
RECURSIVE SumSeq(_)
SumSeq(s) == IF s = << >> THEN 0 ELSE Head(s) + SumSeq(Tail(s))

\* The turn from one heading to the next as the angle in (-180, +180].
HalfOpenTurn(d) ==
    LET m == d % 360
    IN  IF m > 180 THEN m - 360 ELSE m

\* The same with a turn of exactly -180 left as it is.
ClosedTurn(d) == IF d = -180 THEN -180 ELSE HalfOpenTurn(d)

\* The turns between consecutive samples of a window whose headings are both
\* known, summed.
TurnSum(recent, closed) ==
    SumSeq([i \in 1..(Len(recent) - 1) |->
              IF recent[i].true_track = Null \/ recent[i + 1].true_track = Null
              THEN 0
              ELSE LET d == Val(recent[i + 1].true_track)
                            - Val(recent[i].true_track)
                   IN  IF closed THEN ClosedTurn(d) ELSE HalfOpenTurn(d)])

\* The last call evaluated an airborne aircraft against a window of at least
\* 20 samples.
HoldingEvaluated ==
    /\ lastOp = "detectAnomalies"
    /\ HasPosition(lastArg[1])
    /\ ~lastArg[1].on_ground
    /\ Len(aircraftHistory[1]) >= 20

\* The holding anomaly is emitted exactly when the turns sum to two full
\* circles, and reports that sum.
HoldingFollows(total) ==
    LET holding == OfType(emitted, "holding_pattern")
    IN  /\ holding # << >> <=> Abs(total) >= 2 * 360
        /\ holding # << >> => holding[1].metrics.total_heading_change = total

\* C24: the holding-pattern detector accumulates each heading delta as the
\* angle in (-180, +180]: headings 350, 10, 30 count as +20, +20, and what is
\* emitted follows the sum of those angles over the last 30 samples.
C24_HalfOpenNormalised ==
    HoldingEvaluated
        => HoldingFollows(TurnSum(LastN(aircraftHistory[1], 30), FALSE))

\* What the code does: the same, but a delta of exactly -180 stays -180.
C24_ClosedNormalised ==
    HoldingEvaluated
        => HoldingFollows(TurnSum(LastN(aircraftHistory[1], 30), TRUE))

\* A window that turns by 40 degrees per poll across north (350, 30, 70,
\* ...) was evaluated and the holding anomaly emitted with the sum of the
\* short turns.
C24_Witness ==
    /\ HoldingEvaluated
    /\ \E i \in 1..(Len(aircraftHistory[1]) - 1) :
          /\ aircraftHistory[1][i].true_track = Some(350)
          /\ aircraftHistory[1][i + 1].true_track = Some(30)
    /\ OfType(emitted, "holding_pattern") # << >>
    /\ OfType(emitted, "holding_pattern")[1].metrics.total_heading_change
           >= 28 * 40

\* C25: no holding anomaly for an aircraft on the ground or with fewer than
\* 20 samples in its window, whatever the headings.
C25_NoHoldingOnGroundOrShort ==
    ( /\ lastOp = "detectAnomalies"
      /\ \/ lastArg[1].on_ground
         \/ Len(aircraftHistory[lastArg[1].icao24]) < 20 )
    => OfType(emitted, "holding_pattern") = << >>

\* An aircraft on the ground was evaluated against 20 samples or more that
\* turn through two full circles.
C25_Witness ==
    /\ lastOp = "detectAnomalies"
    /\ HasPosition(lastArg[1])
    /\ lastArg[1].on_ground
    /\ Len(aircraftHistory[1]) >= 20
    /\ Abs(TurnSum(LastN(aircraftHistory[1], 30), TRUE)) >= 2 * 360
    /\ OfType(emitted, "holding_pattern") = << >>

\* The same for an airborne aircraft with 19 samples.
C25_WitnessShort ==
    /\ lastOp = "detectAnomalies"
    /\ ~lastArg[1].on_ground
    /\ Len(aircraftHistory[1]) = 19
    /\ Abs(TurnSum(aircraftHistory[1], TRUE)) >= 2 * 360
    /\ OfType(emitted, "holding_pattern") = << >>

\* The three phases over a window, on consecutive samples whose altitudes
\* are both known: a descent into sample i, sample j at or after it below
\* 1500 ft, a climb into sample k at or after that.
GoAroundPhases(recent) ==
    LET Known(i) == /\ recent[i - 1].baro_altitude # Null
                    /\ recent[i].baro_altitude # Null
        Alt(i) == Val(recent[i].baro_altitude)
        Idx == 2..Len(recent)
    IN  \E i \in Idx : \E j \in Idx : \E k \in Idx :
            /\ i <= j /\ j <= k
            /\ Known(i) /\ Alt(i) < Alt(i - 1)
            /\ Known(j) /\ Alt(j) * 3281 < 1500 * 1000
            /\ Known(k) /\ Alt(k) > Alt(k - 1)

\* The lowest known altitude of a set of samples, in ft x 1000.
Lowest(recent, samples) ==
    LET alts == { Val(recent[i].baro_altitude) * 3281 :
                    i \in { n \in samples : recent[n].baro_altitude # Null } }
    IN  CHOOSE a \in alts : \A b \in alts : a <= b

\* The go-around anomaly is emitted, as medium, exactly when the window has at
\* least 10 samples, its last 15 show the three phases in order and the
\* current vertical rate is above 2 m/s.
GoAroundEmitted ==
    LET goAround == OfType(emitted, "go_around")
        aircraft == lastArg[1]
    IN  /\ goAround # << >>
           <=> /\ Len(aircraftHistory[1]) >= 10
               /\ GoAroundPhases(LastN(aircraftHistory[1], 15))
               /\ aircraft.vertical_rate # Null
               /\ Val(aircraft.vertical_rate) > 2
        /\ goAround # << >> => goAround[1].severity = "medium"

\* C26: the go-around anomaly is emitted exactly when the phases and the
\* vertical rate say so, and its lowest_altitude_ft is the lowest altitude
\* reached in the window scanned.
C26_GoAround ==
    (lastOp = "detectAnomalies" /\ HasPosition(lastArg[1]))
    => /\ GoAroundEmitted
       /\ OfType(emitted, "go_around") # << >>
          => LET recent == LastN(aircraftHistory[1], 15)
             IN  OfType(emitted, "go_around")[1].metrics.lowest_altitude_ft
                     = Lowest(recent, DOMAIN recent)

\* What the code does: the same emission; the metric is the lowest among the
\* samples that follow a sample of known altitude, so the first of the 15
\* and a sample after a gap are not counted.
C26_GoAroundAfterKnown ==
    (lastOp = "detectAnomalies" /\ HasPosition(lastArg[1]))
    => /\ GoAroundEmitted
       /\ OfType(emitted, "go_around") # << >>
          => LET recent == LastN(aircraftHistory[1], 15)
             IN  OfType(emitted, "go_around")[1].metrics.lowest_altitude_ft
                     = Lowest(recent,
                              { i \in 2..Len(recent) :
                                  recent[i - 1].baro_altitude # Null })

\* The scenario of the specification: 5000 ft, down to 1200 ft, up to 2500 ft
\* with a positive vertical rate, yields a go-around with 1200 ft as lowest.
C26_Scenario ==
    /\ lastOp = "detectAnomalies"
    /\ \E i \in 1..(Len(aircraftHistory[1]) - 3) :
          /\ aircraftHistory[1][i].baro_altitude = Some(1524)
          /\ aircraftHistory[1][i + 2].baro_altitude = Some(366)
    /\ lastArg[1].baro_altitude = Some(762)
    /\ OfType(emitted, "go_around") # << >>
    /\ OfType(emitted, "go_around")[1].metrics.lowest_altitude_ft = 366 * 3281

\* The severities of the unusual_speed anomalies the last call emitted.
SpeedSeverities ==
    LET speed == OfType(emitted, "unusual_speed")
    IN  [i \in DOMAIN speed |-> speed[i].severity]

\* C27: nothing for an aircraft on the ground or of unknown velocity; for an
\* airborne one medium above 600 kt, low below 80 kt when the barometric
\* altitude is known and above 3000 m, and nothing otherwise.  A speed in
\* m/s is 1.944 times that in kt.
C27_SpeedRule ==
    (lastOp = "detectAnomalies" /\ HasPosition(lastArg[1]))
    => LET aircraft == lastArg[1]
           velocity == Val(aircraft.velocity)
       IN  SpeedSeverities =
             IF aircraft.on_ground \/ aircraft.velocity = Null THEN << >>
             ELSE IF velocity * 1944 > 600 * 1000 THEN << "medium" >>
             ELSE IF /\ velocity * 1944 < 80 * 1000
                     /\ aircraft.baro_altitude # Null
                     /\ Val(aircraft.baro_altitude) > 3000
                  THEN << "low" >>
             ELSE << >>

\* A slow airborne aircraft at exactly 3000 m was evaluated and nothing
\* emitted for its speed.
C27_Witness ==
    /\ lastOp = "detectAnomalies"
    /\ HasPosition(lastArg[1])
    /\ ~lastArg[1].on_ground
    /\ lastArg[1].velocity = Some(41)
    /\ lastArg[1].baro_altitude = Some(3000)
    /\ OfType(emitted, "unusual_speed") = << >>

\* The derivative trigger's condition on the last call: an airborne aircraft,
\* at least 2 samples in its window, both altitudes known, a positive time
\* delta and a change below -3000 ft/min (ft x 1000 over ms).
DerivativeDrop ==
    LET aircraft == lastArg[1]
        history == aircraftHistory[aircraft.icao24]
        previous == history[Len(history) - 1]
        change == (Val(aircraft.baro_altitude) - Val(previous.baro_altitude))
                  * 3281
        delta == aircraft.last_contact - previous.last_contact
    IN  /\ ~aircraft.on_ground
        /\ Len(history) >= 2
        /\ aircraft.baro_altitude # Null
        /\ previous.baro_altitude # Null
        /\ delta > 0
        /\ change * 60 < -3000 * delta

\* C28: the derivative trigger does not depend on the instantaneous vertical
\* rate: whenever its condition holds an altitude_drop is emitted, be the
\* vertical rate present or absent (the rapid_descent of the first trigger
\* is let stand in for it when that trigger fires).
C28_DerivativeIndependent ==
    (lastOp = "detectAnomalies" /\ HasPosition(lastArg[1]) /\ DerivativeDrop)
    => \/ OfType(emitted, "altitude_drop") # << >>
       \/ /\ lastArg[1].vertical_rate # Null
          /\ OfType(emitted, "rapid_descent") # << >>

\* What the code does: altitude_drop is emitted exactly when the condition
\* holds and the vertical rate is known and not below -4000 ft/min.
C28_DerivativeNeedsRate ==
    (lastOp = "detectAnomalies" /\ HasPosition(lastArg[1]))
    => ( OfType(emitted, "altitude_drop") # << >>
           <=> /\ DerivativeDrop
               /\ lastArg[1].vertical_rate # Null
               /\ Val(lastArg[1].vertical_rate) * 19685 >= -4000 * 100 )

(***************************************************************************)
(* Recording and statistics.                                               *)
(***************************************************************************)
\* C29: every call of addToHistory appends one entry, the state stamped with
\* the current time, also when the same state was recorded just before: the
\* window grows by one less what the age filter and the size cap removed.
C29_AppendsUnconditionally ==
    [][( lastOp' = "addToHistory" /\ ops' = ops + 1 )
       => LET icao24 == lastArg'[1].icao24
              before == aircraftHistory[icao24]
              window == aircraftHistory'[icao24]
          IN  /\ window # << >>
              /\ window[Len(window)]
                     = [lastArg'[1] EXCEPT !.last_contact = now]
              /\ Len(window) = Len(before) + 1 - lastResult'.byAge
                                               - lastResult'.byCount
      ]_vars

\* The same state was recorded three times at the same moment: the window
\* ends with three equal entries.
C29_Witness ==
    /\ lastOp = "addToHistory"
    /\ LET window == aircraftHistory[lastArg[1].icao24]
           n == Len(window)
       IN  /\ n >= 3
           /\ window[n] = window[n - 1]
           /\ window[n - 1] = window[n - 2]
           /\ window[n].last_contact = now

RECURSIVE SumOver(_, _)
SumOver(f, keys) ==
    IF keys = {} THEN 0
    ELSE LET k == CHOOSE k \in keys : TRUE
         IN  f[k] + SumOver(f, keys \ {k})

\* C30: the statistics of a list hold its length as total, one count for each
\* of the four severities and one for each type present; the severity
\* counts and the type counts each sum to total.
C30_StatsCount ==
    lastOp = "getAnomalyStats"
    => LET anomalies == lastArg
           stats == lastResult
           severities == {"critical", "high", "medium", "low"}
           types == {anomalies[i].type : i \in DOMAIN anomalies}
       IN  /\ DOMAIN stats = {"total"} \cup severities \cup types
           /\ stats["total"] = Len(anomalies)
           /\ \A severity \in severities :
                 stats[severity]
                     = Len(OfSeverity(anomalies, severity))
           /\ \A type \in types :
                 stats[type] = Len(OfType(anomalies, type))
           /\ SumOver(stats, severities) = stats["total"]
           /\ SumOver(stats, types) = stats["total"]

\* Statistics of three anomalies, two of them of one type and of different
\* severities.
C30_Witness ==
    /\ lastOp = "getAnomalyStats"
    /\ Len(lastArg) = 3
    /\ "unusual_speed" \in DOMAIN lastResult
    /\ lastResult["total"] = 3
    /\ lastResult["unusual_speed"] = 2
    /\ lastResult["medium"] = 1
    /\ lastResult["low"] = 1
    /\ lastResult["critical"] = 1

(***************************************************************************)
(* Properties of what the entry points return.                             *)
(***************************************************************************)
Returning ==
    lastOp \in {"detectAnomalies", "detectAnomaliesBatch", "analyzeFlightTrack"}

AsksForToken(p) ==
    /\ useOAuth2
    /\ calls[p].pc \in {"idle", "sleep"}
    /\ calls'[p].pc \in {"tokenWait", "fetchWait"}

\* C32: under OAuth2 a call goes to the auth server exactly when no token is
\* cached or the clock has reached the cached token's expiry, and otherwise
\* sends its request with the cached token and no round trip; a 401 leaves
\* no token cached before the new one is asked for; a token that arrives is
\* cached with expiry = arrival time + (expires_in - 60) seconds.
C32_TokenReusedUntilExpiry ==
    [][ /\ \A p \in Calls :
              /\ AsksForToken(p)
                 => /\ calls'[p].pc = "tokenWait"
                       <=> (oauthToken = Null \/ now >= tokenExpiresAt)
                    /\ calls'[p].pc = "fetchWait"
                       => /\ sent' = Append(sent, sent'[Len(sent')])
                          /\ sent'[Len(sent')].token = oauthToken
                          /\ tokensIssued' = tokensIssued
              /\ (calls[p].pc # "tokenWait2" /\ calls'[p].pc = "tokenWait2")
                 => oauthToken' = Null
        /\ tokensIssued' # tokensIssued
           => /\ oauthToken' = Some(tokensIssued')
              /\ \E expires_in \in ExpiresInChoices :
                    tokenExpiresAt' = now + (expires_in - 60) * 1000
      ]_vars

\* Two calls sent their requests with the one token issued so far, the second
\* one later than the first and before the token's expiry.
C32_Witness ==
    /\ useOAuth2
    /\ tokensIssued = 1
    /\ Len(sent) = 2
    /\ sent[1].call # sent[2].call
    /\ sent[1].token = Some(1)
    /\ sent[2].token = Some(1)
    /\ sent[2].t > sent[1].t
    /\ sent[2].t < tokenExpiresAt

\* A call found the cached token expired and sent its request with a second
\* token, no 401 having been answered.
C32_WitnessExpired ==
    /\ useOAuth2
    /\ tokensIssued = 2
    /\ Len(sent) = 2
    /\ sent[1].token = Some(1)
    /\ sent[2].token = Some(2)
    /\ ~sent[2].retry
    /\ calls[sent[1].call].pc = "done"
    /\ calls[sent[1].call].status = "200"

\* The state calls whose upstream request is answered 2xx in this step.
FetchedNow(kinds) ==
    { p \in Calls : /\ calls[p].pc # "done"
                    /\ calls'[p].pc = "done"
                    /\ calls'[p].how = "net"
                    /\ calls'[p].kind \in kinds
                    /\ calls'[p].status \in OkStatuses }

\* The entry a 2xx answer to call p leaves under its key: the payload of the
\* answer (the empty list for states: null) and the time of the write.
FetchedEntry(p) ==
    Some([data |-> IF calls'[p].status = "200" THEN calls'[p].req
                   ELSE EmptyList,
          timestamp |-> now])

\* The cache changes in a step exactly as the 2xx answers to calls of the
\* given kinds say: the key's entry replaced, every other entry kept; and
\* not at all in a step without such an answer.
CacheFollows(kinds) ==
    IF FetchedNow(kinds) = {} THEN responseCache' = responseCache
    ELSE \A p \in FetchedNow(kinds) :
            responseCache' =
                [responseCache EXCEPT ![calls'[p].key] = FetchedEntry(p)]

\* C33: the cache holds per key the payload and the fetch time of the last
\* successful fetch: a 2xx answer to a state call replaces the entry of its
\* key, and a step in which a call ends in 429, in a failure, in the cooldown
\* short-circuit or in a fresh hit changes no entry.
C33_CacheHoldsLastSuccess ==
    [][CacheFollows({"all", "bbox", "icao"})]_vars

\* What the code does: the same for getAllStates and getStatesByBoundingBox;
\* no call of getStatesByIcao24 ever writes the cache.
C33_CacheHoldsLastSuccessAllBbox ==
    [][CacheFollows({"all", "bbox"})]_vars

(***************************************************************************)
(* Properties of one evaluation.                                           *)
(***************************************************************************)
\* The place in the pipeline of the detector that emits a type.
PipelinePlace(type) ==
    CASE type = "emergency_squawk" -> 1
      [] type \in {"rapid_descent", "altitude_drop"} -> 2
      [] type = "holding_pattern" -> 3
      [] type = "unusual_speed" -> 4
      [] type = "go_around" -> 5

\* C34: detectAnomalies returns what the detectors emit in the order
\* emergency squawk, descent/altitude, holding pattern, unusual speed,
\* go-around, at most one anomaly from each: at most five, every one about
\* the aircraft evaluated, each from a later detector than the one before.
C34_PipelineOrder ==
    lastOp = "detectAnomalies"
    => /\ Len(lastResult) <= 5
       /\ \A i \in DOMAIN lastResult :
             /\ lastResult[i].flight_icao24 = lastArg[1].icao24
             /\ i > 1 => PipelinePlace(lastResult[i - 1].type)
                         < PipelinePlace(lastResult[i].type)

\* One evaluation returned five anomalies, one from each detector.
C34_Witness ==
    /\ lastOp = "detectAnomalies"
    /\ Len(lastResult) = 5
    /\ [i \in 1..5 |-> lastResult[i].type]
           = << "emergency_squawk", "altitude_drop", "holding_pattern",
                "unusual_speed", "go_around" >>

\* The last call evaluated an airborne aircraft whose vertical rate is known
\* and not below -4000 ft/min: the derivative trigger is reached.
DerivativeReached ==
    /\ lastOp = "detectAnomalies"
    /\ HasPosition(lastArg[1])
    /\ ~lastArg[1].on_ground
    /\ lastArg[1].vertical_rate # Null
    /\ Val(lastArg[1].vertical_rate) * 19685 >= -4000 * 100

\* The derivative between the two most recent samples of a window, both
\* deltas taken between those two samples: below -3000 ft/min over a time
\* delta (ms) that is strictly positive.
HistoryDerivativeDrop(history) ==
    /\ Len(history) >= 2
    /\ LET last == history[Len(history)]
           previous == history[Len(history) - 1]
           delta == last.last_contact - previous.last_contact
       IN  /\ last.baro_altitude # Null
           /\ previous.baro_altitude # Null
           /\ delta > 0
           /\ (Val(last.baro_altitude) - Val(previous.baro_altitude))
                  * 3281 * 60 < -3000 * delta

\* C35: altitude_drop is the derivative between the two most recent samples
\* of the window, altitude delta and time delta both taken between those two
\* samples and both times of the same kind (the ingestion times the window
\* holds); no result with fewer than 2 samples or a time delta that is not
\* strictly positive.
C35_DerivativeFromTwoSamples ==
    DerivativeReached
    => LET history == aircraftHistory[lastArg[1].icao24]
           drop == OfType(emitted, "altitude_drop")
       IN  /\ drop # << >> <=> HistoryDerivativeDrop(history)
           /\ drop # << >>
              => drop[1].metrics.time_change_ms
                     = history[Len(history)].last_contact
                       - history[Len(history) - 1].last_contact

\* What the code does: the time delta runs from the ingestion time of the
\* previous sample to the last_contact the feed reported for the current
\* state.
C35_DerivativeMixesClocks ==
    DerivativeReached
    => LET history == aircraftHistory[lastArg[1].icao24]
           drop == OfType(emitted, "altitude_drop")
       IN  /\ drop # << >> <=> DerivativeDrop
           /\ drop # << >>
              => drop[1].metrics.time_change_ms
                     = lastArg[1].last_contact
                       - history[Len(history) - 1].last_contact

\* The signed turns over the most recent 30 samples of the window the last
\* call evaluated, summed: opposite turns cancel.
AccumulatedTurn ==
    TurnSum(LastN(aircraftHistory[lastArg[1].icao24], 30), TRUE)

\* The holding anomalies of the last call are all medium.
HoldingMedium ==
    \A i \in DOMAIN emitted :
        emitted[i].type = "holding_pattern" => emitted[i].severity = "medium"

C36_WitnessCancel ==
    /\ HoldingEvaluated
    /\ Len(aircraftHistory[1]) >= 30
    /\ \A i \in 1..28 :
          /\ aircraftHistory[1][i].true_track # Null
          /\ aircraftHistory[1][i + 1].true_track # Null
          /\ Abs(Val(aircraftHistory[1][i + 1].true_track)
                 - Val(aircraftHistory[1][i].true_track)) = 180
    /\ Abs(AccumulatedTurn) <= 180
    /\ OfType(emitted, "holding_pattern") = << >>

\* C37: the descent detector emits at most one anomaly per call, and the
\* vertical rate goes first: for an airborne aircraft whose vertical rate is
\* below -4000 ft/min the result is rapid_descent and no altitude_drop, also
\* when the altitude fell faster than 3000 ft/min since the sample before.
C37_RapidDescentFirst ==
    (lastOp = "detectAnomalies" /\ HasPosition(lastArg[1]))
    => LET rapid == OfType(emitted, "rapid_descent")
           drop == OfType(emitted, "altitude_drop")
           aircraft == lastArg[1]
       IN  /\ Len(rapid) + Len(drop) <= 1
           /\ ( /\ ~aircraft.on_ground
                /\ aircraft.vertical_rate # Null
                /\ Val(aircraft.vertical_rate) * 19685 < -4000 * 100 )
              => (Len(rapid) = 1 /\ drop = << >>)

\* An aircraft descending at 25 m/s, 100 m below the sample recorded before,
\* was evaluated: both triggers hold, rapid_descent alone is emitted.
C37_Witness ==
    /\ lastOp = "detectAnomalies"
    /\ HasPosition(lastArg[1])
    /\ lastArg[1].vertical_rate = Some(-25)
    /\ DerivativeDrop
    /\ Len(OfType(emitted, "rapid_descent")) = 1
    /\ OfType(emitted, "altitude_drop") = << >>

(***************************************************************************)
(* Properties of the replay of a track.                                    *)
(***************************************************************************)
\* The points of the replayed track that have a position.
Replayed ==
    LET Positioned(point) == point.latitude # Null /\ point.longitude # Null
    IN  SelectSeq(lastArg[1].path, Positioned)

\* C38: analyzeFlightTrack returns holding_pattern anomalies only: the states
\* it evaluates, which are the last entries of the window afterwards, carry
\* no squawk, no velocity and no vertical rate.
C38_TrackOnlyHolding ==
    lastOp = "analyzeFlightTrack"
    => LET history == aircraftHistory[lastArg[1].icao24]
       IN  /\ \A i \in DOMAIN lastResult :
                 lastResult[i].type = "holding_pattern"
           /\ Len(history) >= Len(Replayed)
           /\ \A i \in 1..Len(Replayed) :
                 LET entry == history[Len(history) - Len(Replayed) + i]
                 IN  /\ entry.squawk = Null
                     /\ entry.velocity = Null
                     /\ entry.vertical_rate = Null
                     /\ entry.baro_altitude = Replayed[i].baro_altitude
                     /\ entry.true_track = Replayed[i].true_track

\* A track was replayed over a window that turns through two circles and
\* comes down to 1200 ft and up again: the holding anomaly is returned and
\* nothing else, although the window shows the three phases of a go-around.
C38_Witness ==
    /\ lastOp = "analyzeFlightTrack"
    /\ Len(lastResult) = 1
    /\ lastResult[1].type = "holding_pattern"
    /\ GoAroundPhases(LastN(aircraftHistory[1], 15))

\* C39: a replay is not isolated from live detection: every point with a
\* position is appended, as a state without squawk, velocity and vertical
\* rate and stamped with the current time, to the window of track.icao24 that
\* detectAnomalies uses; the entries the window held stay in front of them
\* (no entry is old enough or the window long enough to be trimmed), and the
\* windows of other aircraft are left alone.
C39_ReplayFillsLiveWindow ==
    [][( /\ lastOp' = "analyzeFlightTrack"
         /\ ops' = ops + 1
         /\ \A i \in DOMAIN aircraftHistory[lastArg'[1].icao24] :
               aircraftHistory[lastArg'[1].icao24][i].last_contact
                   > now - HISTORY_RETENTION_MS )
       => LET track == lastArg'[1]
              Positioned(point) ==
                  point.latitude # Null /\ point.longitude # Null
              points == SelectSeq(track.path, Positioned)
              before == aircraftHistory[track.icao24]
              appended ==
                  [i \in DOMAIN points |->
                      [icao24 |-> track.icao24,
                       latitude |-> points[i].latitude,
                       longitude |-> points[i].longitude,
                       baro_altitude |-> points[i].baro_altitude,
                       velocity |-> Null,
                       true_track |-> points[i].true_track,
                       vertical_rate |-> Null,
                       on_ground |-> points[i].on_ground,
                       squawk |-> Null, last_contact |-> now]]
          IN  /\ Len(before) + Len(points) <= HISTORY_MAX_SIZE
                 => aircraftHistory'[track.icao24] = before \o appended
              /\ \A other \in Icaos \ {track.icao24} :
                    aircraftHistory'[other] = aircraftHistory[other]
      ]_vars

\* The entries of a window that a replay has made: those without a velocity.
FromReplay(history) ==
    { i \in DOMAIN history : history[i].velocity = Null }

\* A live evaluation after a replay: the level window of 10 samples holds the
\* three replayed points of a descent to 1200 ft and a climb, and the climbing
\* aircraft is reported as go_around, which the level window alone does not
\* give.
C39_Witness ==
    /\ lastOp = "detectAnomalies"
    /\ Len(aircraftHistory[1]) = 14
    /\ FromReplay(aircraftHistory[1]) = 11..13
    /\ \A i \in 1..10 : aircraftHistory[1][i].baro_altitude = Some(1524)
    /\ \A i \in 11..14 : aircraftHistory[1][i].last_contact = now
    /\ OfType(emitted, "go_around") # << >>
    /\ ~GoAroundPhases(SubSeq(aircraftHistory[1], 1, 10)
                       \o << aircraftHistory[1][14] >>)

\* The same track replayed twice from an empty store: the window holds both
\* passes, six entries stamped with the current time.
C39_WitnessTwice ==
    /\ lastOp = "analyzeFlightTrack"
    /\ ops = 2
    /\ Len(aircraftHistory[1]) = 6
    /\ FromReplay(aircraftHistory[1]) = 1..6
    /\ \A i \in 1..3 : /\ aircraftHistory[1][i] = aircraftHistory[1][i + 3]
                       /\ aircraftHistory[1][i].last_contact = now

(***************************************************************************)
(* Properties of the location of an anomaly.                               *)
(***************************************************************************)
\* C40: every anomaly detectAnomalies returns carries the latitude and the
\* longitude of the aircraft evaluated, and both are known: a 0 in the
\* location is the aircraft's own coordinate, never the placeholder for a
\* missing fix.
C40_LocationIsThePosition ==
    lastOp = "detectAnomalies"
    => \A i \in DOMAIN lastResult :
          /\ lastArg[1].latitude # Null
          /\ lastArg[1].longitude # Null
          /\ lastResult[i].location.latitude = Val(lastArg[1].latitude)
          /\ lastResult[i].location.longitude = Val(lastArg[1].longitude)

\* An aircraft at 33 degrees south on the prime meridian was evaluated and an
\* anomaly returned with its position, the 0 of its longitude included.
C40_Witness ==
    /\ lastOp = "detectAnomalies"
    /\ lastArg[1].latitude = Some(-33)
    /\ lastArg[1].longitude = Some(0)
    /\ lastResult # << >>
    /\ lastResult[1].location = [latitude |-> -33, longitude |-> 0]

\* An aircraft without a latitude and with an emergency code was evaluated:
\* nothing is returned, so no anomaly shows the placeholder.
C40_WitnessNoFix ==
    /\ lastOp = "detectAnomalies"
    /\ lastArg[1].latitude = Null
    /\ lastArg[1].squawk = Some("7700")
    /\ lastResult = << >>

=============================================================================
